---------------------------- MODULE LoadingProofs ---------------------------
(***************************************************************************)
(* Proofs about load_model(), for every set of directories, whatever their *)
(* files hold, every machine, set of options and number of calls:          *)
(*   - each layer is planned for one device (LayersOwnedOnce);             *)
(*   - weights_ is never a mixture, and OK means parts that belong         *)
(*     together and a configuration that has the file's value wherever the *)
(*     file settles it (invariant LoadInv);                                *)
(*   - the types, and that the bytes planned over the devices are those of *)
(*     the model's tensors (invariant TotalInv, with the sums of SumFacts);*)
(*   - a first call accepts exactly the directories whose parts fit        *)
(*     together (invariant DecisionInv: the checks passed at each stage).  *)
(***************************************************************************)
EXTENDS Loading, SumFacts, SequenceTheorems, TLAPS

-----------------------------------------------------------------------------
(* The ranges of plan_distributed() for every number of layers L and of    *)
(* devices N <= L. Everything rests on one fact about integer division:    *)
(* x \div N is at least k exactly if x is at least k * N.                  *)

LEMMA DivBounds ==
  ASSUME NEW x \in Int, NEW N \in Nat \ {0}
  PROVE  /\ x \div N \in Int
         /\ N * (x \div N) <= x
         /\ x < N * (x \div N) + N
  BY SMT

LEMMA Times ==
  ASSUME NEW a \in Int, NEW b \in Int, NEW N \in Nat \ {0}
  PROVE  /\ a <= b <=> N * a <= N * b
         /\ N * (a + 1) = N * a + N
  BY SMT

LEMMA TimesNext ==
  ASSUME NEW a \in Int, NEW b \in Int, NEW N \in Nat \ {0}
  PROVE  a + 1 <= b <=> N * (a + 1) <= N * b
<1>1. a + 1 \in Int
  OBVIOUS
<1> QED
  BY <1>1, Times

LEMMA DivAtLeast ==
  ASSUME NEW x \in Int, NEW k \in Int, NEW N \in Nat \ {0}
  PROVE  k <= x \div N <=> N * k <= x
<1> DEFINE q == x \div N
<1>1. q \in Int /\ N * q <= x /\ x < N * q + N
  BY DivBounds
<1>2. N * (q + 1) = N * q + N
  BY <1>1, Times
<1>3. N * k \in Int /\ N * q \in Int
  BY <1>1
<1>4. k <= q <=> N * k <= N * q
  BY <1>1, Times
<1>5. q + 1 <= k <=> N * (q + 1) <= N * k
  BY <1>1, TimesNext
<1> HIDE DEF q
<1>6. k <= q <=> N * k <= x
  <2>1. CASE k <= q
    BY <2>1, <1>1, <1>3, <1>4
  <2>2. CASE q + 1 <= k
    BY <2>2, <1>1, <1>2, <1>3, <1>5
  <2> QED
    BY <2>1, <2>2, <1>1
<1> QED
  BY <1>6 DEF q

LEMMA NextAtMostDiv ==
  ASSUME NEW x \in Int, NEW k \in Int, NEW N \in Nat \ {0}
  PROVE  k + 1 <= x \div N <=> N * (k + 1) <= x
<1>1. k + 1 \in Int
  OBVIOUS
<1> QED
  BY <1>1, DivAtLeast

\* The range of device i in terms of products.
LEMMA OwnedIff ==
  ASSUME NEW L \in Nat \ {0}, NEW N \in Nat \ {0}, NEW i \in Nat, NEW l \in Nat
  PROVE  l \in Owned(L, N, i) <=> /\ L * i < N * (l + 1)
                                  /\ N * (l + 1) <= L * (i + 1)
<1> DEFINE a == (L * i) \div N
           b == (L * (i + 1)) \div N
<1>1. L * i \in Int /\ L * (i + 1) \in Int /\ N * (l + 1) \in Int
  OBVIOUS
<1>2. a \in Int /\ b \in Int
  BY <1>1, DivBounds
<1>3. l + 1 <= a <=> N * (l + 1) <= L * i
  BY <1>1, NextAtMostDiv
<1>4. l + 1 <= b <=> N * (l + 1) <= L * (i + 1)
  BY <1>1, NextAtMostDiv
<1>5. l \in Owned(L, N, i) <=> l \in a .. b - 1
  BY DEF Owned, first_layer, last_layer
<1> HIDE DEF a, b
<1>6. l \in a .. b - 1 <=> ~(l + 1 <= a) /\ l + 1 <= b
  BY <1>2
<1> QED
  BY <1>1, <1>3, <1>4, <1>5, <1>6

\* Layer l belongs to the device ((l+1) * N - 1) \div L, and to no other.
\* (plan_distributed: no layer is forgotten or loaded twice)
THEOREM LayersOwnedOnce ==
  ASSUME NEW L \in Nat \ {0}, NEW N \in Nat \ {0}
  PROVE  EachLayerOwnedOnce(L, N)
<1> SUFFICES ASSUME NEW l \in 0 .. L - 1
             PROVE  \E i \in 0 .. N - 1 :
                      /\ l \in Owned(L, N, i)
                      /\ \A j \in 0 .. N - 1 : l \in Owned(L, N, j) => j = i
  BY DEF EachLayerOwnedOnce, LayerNumbers, DeviceNumbers
<1> DEFINE x == N * (l + 1) - 1
           i == x \div L
<1>0. l \in Nat /\ x \in Int /\ N * (l + 1) \in Int
  OBVIOUS
<1>1. i \in Int /\ L * i <= x /\ x < L * i + L
  BY <1>0, DivBounds
<1>2. L * (i + 1) = L * i + L /\ L * i \in Int
  BY <1>1, Times
<1>3. 0 <= i
  <2>1. L * 0 = 0 /\ 0 <= x
    <3>1. N * 1 <= N * (l + 1)
      BY <1>0, Times
    <3> QED
      BY <3>1, <1>0
  <2> QED
    BY <2>1, <1>0, DivAtLeast
<1>4. i < N
  <2>1. N * (l + 1) <= N * L
    <3>1. l + 1 <= L
      BY <1>0
    <3> QED
      BY <3>1, <1>0, TimesNext
  <2>2. N * L = L * N /\ L * N \in Int
    OBVIOUS
  <2>3. N <= i <=> L * N <= L * i
    BY <1>1, Times
  <2> HIDE DEF i
  <2> QED
    BY <2>1, <2>2, <2>3, <1>0, <1>1, <1>2
<1> HIDE DEF i
<1>5. l \in Owned(L, N, i)
  BY <1>0, <1>1, <1>2, <1>3, OwnedIff
<1>6. ASSUME NEW j \in 0 .. N - 1, l \in Owned(L, N, j)
      PROVE  j = i
  <2>1. L * j < N * (l + 1) /\ N * (l + 1) <= L * (j + 1)
    BY <1>0, <1>6, OwnedIff
  <2>2. L * j \in Int /\ L * (j + 1) \in Int
    OBVIOUS
  <2>3. i + 1 <= j <=> L * (i + 1) <= L * j
    BY <1>1, TimesNext
  <2>4. j + 1 <= i <=> L * (j + 1) <= L * i
    BY <1>1, TimesNext
  <2> QED
    BY <2>1, <2>2, <2>3, <2>4, <1>0, <1>1, <1>2
<1> QED
  BY <1>1, <1>3, <1>4, <1>5, <1>6

\* No device is left without a layer when there are at least as many layers.
THEOREM DevicesUsed ==
  ASSUME NEW L \in Nat \ {0}, NEW N \in Nat \ {0}, N <= L
  PROVE  EachDeviceUsed(L, N)
<1> SUFFICES ASSUME NEW i \in 0 .. N - 1
             PROVE  first_layer(L, N, i) <= last_layer(L, N, i)
  BY DEF EachDeviceUsed, DeviceNumbers
<1> DEFINE a == (L * i) \div N
           b == (L * (i + 1)) \div N
<1>1. L * i \in Int /\ L * (i + 1) = L * i + L
  BY Times
<1>2. a \in Int /\ b \in Int /\ N * a <= L * i
  BY <1>1, DivBounds
<1>3. N * (a + 1) = N * a + N /\ N * a \in Int
  BY <1>2, Times
<1>4. a + 1 <= b <=> N * (a + 1) <= L * (i + 1)
  BY <1>1, <1>2, NextAtMostDiv
<1>5. first_layer(L, N, i) = a /\ last_layer(L, N, i) = b - 1
  BY DEF first_layer, last_layer
<1> HIDE DEF a, b
<1> QED
  BY <1>1, <1>2, <1>3, <1>4, <1>5

\* The number of layers of a device is L \div N or one more.
LEMMA ShareBounds ==
  ASSUME NEW L \in Nat \ {0}, NEW N \in Nat \ {0}, NEW i \in Nat
  PROVE  /\ Share(L, N, i) \in Int
         /\ L \div N <= Share(L, N, i)
         /\ Share(L, N, i) <= L \div N + 1
<1> DEFINE a == (L * i) \div N
           b == (L * (i + 1)) \div N
           q == L \div N
<1>1. L * i \in Int /\ L * (i + 1) = L * i + L
  BY Times
<1>2. /\ a \in Int /\ N * a <= L * i /\ L * i < N * a + N
      /\ b \in Int /\ N * b <= L * (i + 1) /\ L * (i + 1) < N * b + N
      /\ q \in Int /\ N * q <= L /\ L < N * q + N
  <2>1. L * (i + 1) \in Int /\ L \in Int
    BY <1>1
  <2> QED
    BY <1>1, <2>1, DivBounds
<1>3. Share(L, N, i) = b - a
  BY <1>2 DEF Share, first_layer, last_layer
<1> HIDE DEF a, b, q
<1>4. /\ N * (a + q) = N * a + N * q
      /\ N * (b + 1) = N * b + N
      /\ N * (a + q + 2) = N * a + N * q + N + N
      /\ N * a \in Int /\ N * b \in Int /\ N * q \in Int
  BY <1>2
<1>5. b + 1 <= a + q <=> N * (b + 1) <= N * (a + q)
  BY <1>2, Times
<1>6. a + q + 2 <= b <=> N * (a + q + 2) <= N * b
  <2>1. a + q + 2 \in Int
    BY <1>2
  <2> QED
    BY <1>2, <2>1, Times
<1>7. ~(b + 1 <= a + q)
  BY <1>1, <1>2, <1>4, <1>5
<1>8. ~(a + q + 2 <= b)
  BY <1>1, <1>2, <1>4, <1>6
<1>9. q <= b - a /\ b - a <= q + 1
  BY <1>2, <1>7, <1>8
<1> QED
  BY <1>2, <1>3, <1>9 DEF q

THEOREM SharesAreFair ==
  ASSUME NEW L \in Nat \ {0}, NEW N \in Nat \ {0}
  PROVE  SharesDifferByOne(L, N)
<1> SUFFICES ASSUME NEW i \in 0 .. N - 1, NEW j \in 0 .. N - 1
             PROVE  Share(L, N, i) <= Share(L, N, j) + 1
  BY DEF SharesDifferByOne, DeviceNumbers
<1>1. L \div N \in Int
  BY DivBounds
<1>2. Share(L, N, i) \in Int /\ Share(L, N, i) <= L \div N + 1
  BY ShareBounds
<1>3. Share(L, N, j) \in Int /\ L \div N <= Share(L, N, j)
  BY ShareBounds
<1> QED
  BY <1>1, <1>2, <1>3

-----------------------------------------------------------------------------
\* The inductive invariant.

Configured == {"open", "plan", "layers", "mtp", "tokenizer", "publish"}
Selecting == {"devices", "config"}
Loaded == {"mtp", "tokenizer", "publish"}

\* The records have the fields they are declared with.
RecordOf(layers, interval, sizes, gates, mtp, eos, layer_types) ==
  [layers |-> layers, interval |-> interval, sizes |-> sizes, gates |-> gates,
   mtp |-> mtp, eos |-> eos, layer_types |-> layer_types]
IsRecord(c) ==
  /\ c = RecordOf(c.layers, c.interval, c.sizes, c.gates, c.mtp, c.eos, c.layer_types)
  /\ c.layers \in Int /\ c.sizes \in [Sizes -> Int] /\ c.gates \in [Gates -> BOOLEAN]
ConfigShape == IsRecord(config)
WeightsShape(w) ==
  w = [from |-> w.from, layers |-> w.layers, partitions |-> w.partitions,
       shared |-> w.shared, total |-> w.total, mtp |-> w.mtp]
CallShape ==
  call = [count |-> call.count, pc |-> call.pc, status |-> call.status,
          dir |-> call.dir, result |-> call.result,
          next_layer |-> call.next_layer, faulty |-> call.faulty]
ShapeInv ==
  /\ ConfigShape /\ WeightsShape(weights) /\ CallShape
  /\ WeightsShape(call.result)

\* A call in progress reads the directory it began with.
StageInv ==
  /\ options \in Options /\ directory \in Directory \cup {NoDirectory}
  /\ call.pc \in {"idle"} \cup Selecting \cup Configured
  /\ call.pc # "idle" =>
       /\ directory \in Directory /\ call.dir = directory /\ call.status # "ok"
  /\ call.pc \in {"devices", "config", "open", "plan"} => call.next_layer = 0
  /\ call.pc \in Configured \cup {"config"} =>
       Count \in Nat \ {0} /\ devices \in Seq(Range(Machine) \cup {Cpu})

\* Once config.json is accepted the fields are valid, and the file's as far as
\* it settles them; the layers follow its schedule.
ConfigInv ==
  call.pc \in Configured =>
    /\ config.layers \in Nat \ {0}
    /\ config.layer_types = Schedule(config.layers, config.interval)
    /\ ValidConfig(config) /\ Agrees(config, D.config, DefaultConfig)

\* The device that the partitions give to a layer, and the layer there.
Listed(k, l) == l \in Partitions[k].first_layer .. Partitions[k].last_layer
Owner(l) == Partitions[CHOOSE k \in DOMAIN Partitions : Listed(k, l)].device
LoadedLayer(l) ==
  [kind |-> config.layer_types[l + 1], device |-> Owner(l), from |-> directory]

\* The first n layers of w are there.
LayersUpTo(w, n) ==
  /\ w.from = directory /\ w.partitions = Partitions
  /\ n \in 0 .. config.layers
  /\ w.layers \in Seq({LoadedLayer(l) : l \in LayerNumbers(config.layers)})
  /\ Len(w.layers) = n
  /\ \A l \in 0 .. n - 1 : w.layers[l + 1] = LoadedLayer(l)

ResultInv ==
  call.pc = "layers" =>
    LayersUpTo(call.result, call.next_layer) /\ call.result.mtp = << >>

\* The later stages work on the model just loaded.
PublishInv ==
  call.pc \in Loaded =>
    /\ LayersUpTo(weights, config.layers)
    /\ weights.shared = <<devices[1], devices[Count], devices[Count]>>
    /\ call.pc = "mtp" => options.enable_mtp /\ weights.mtp = << >>
    /\ call.pc # "mtp" =>
         IF options.enable_mtp
         THEN weights.mtp # << >> /\ weights.mtp[1].layers = config.mtp
         ELSE weights.mtp = << >>
    /\ call.pc = "publish" => tokenizer.vocab = directory /\ tokenizer.bytes

LoadInv ==
  /\ ShapeInv /\ StageInv /\ ConfigInv /\ ResultInv /\ PublishInv
  /\ WeightsAreWhole /\ OkMeansCoherent

USE DEF Configured, Selecting, Loaded

-----------------------------------------------------------------------------
\* Partitions and layers.

LEMMA PartitionFacts ==
  ASSUME Count \in Nat \ {0}
  PROVE  /\ DOMAIN Partitions = 1 .. Count /\ Len(Partitions) = Count
         /\ \A k \in 1 .. Count :
              /\ Partitions[k].device = devices[k]
              /\ Partitions[k].first_layer = first_layer(config.layers, Count, k - 1)
              /\ Partitions[k].last_layer = last_layer(config.layers, Count, k - 1)
<1>1. DOMAIN Partitions = 1 .. Count
  BY DEF Partitions
<1>2. \A k \in 1 .. Count : Partitions[k] = Partition(k - 1)
  BY DEF Partitions
<1>3. ASSUME NEW k \in 1 .. Count
      PROVE  /\ Partition(k - 1).device = devices[k]
             /\ Partition(k - 1).first_layer = first_layer(config.layers, Count, k - 1)
             /\ Partition(k - 1).last_layer = last_layer(config.layers, Count, k - 1)
  <2>1. k - 1 + 1 = k
    OBVIOUS
  <2> QED
    BY <2>1 DEF Partition
<1>4. Len(Partitions) = Count
  <2> DEFINE S == {Partition(k - 1) : k \in 1 .. Count}
  <2>1. Partitions \in [1 .. Count -> S]
    BY DEF Partitions
  <2> HIDE DEF S
  <2>2. Partitions \in Seq(S)
    BY <2>1, SeqDef
  <2> QED
    BY <2>2, <1>1, LenProperties
<1> QED
  BY <1>1, <1>2, <1>3, <1>4

LEMMA LayerHasOwner ==
  ASSUME Count \in Nat \ {0}, config.layers \in Nat \ {0},
         NEW l \in LayerNumbers(config.layers)
  PROVE  \E k \in DOMAIN Partitions :
           /\ Listed(k, l) /\ Owner(l) = Partitions[k].device
           /\ \A j \in DOMAIN Partitions : Listed(j, l) => j = k
<1>1. PICK i \in DeviceNumbers(Count) :
        /\ l \in Owned(config.layers, Count, i)
        /\ \A j \in DeviceNumbers(Count) :
             l \in Owned(config.layers, Count, j) => j = i
  BY LayersOwnedOnce DEF EachLayerOwnedOnce
<1>2. \A k \in DOMAIN Partitions :
        Listed(k, l) <=> l \in Owned(config.layers, Count, k - 1)
  BY PartitionFacts DEF Listed, Owned
<1>3. PICK k \in DOMAIN Partitions : k = i + 1
  BY PartitionFacts DEF DeviceNumbers
<1>4. k \in Int /\ k - 1 = i /\ i \in Int
  BY <1>3, PartitionFacts DEF DeviceNumbers
<1>5. Listed(k, l)
  BY <1>1, <1>2, <1>4
<1>6. \A j \in DOMAIN Partitions : Listed(j, l) => j = k
  <2>1. \A j \in DOMAIN Partitions : j \in Int /\ j - 1 \in DeviceNumbers(Count)
    BY PartitionFacts DEF DeviceNumbers
  <2> QED
    BY <1>1, <1>2, <1>4, <2>1
<1>7. Owner(l) = Partitions[k].device
  <2>1. (CHOOSE j \in DOMAIN Partitions : Listed(j, l)) = k
    BY <1>5, <1>6
  <2> QED
    BY <2>1 DEF Owner
<1> QED
  BY <1>5, <1>6, <1>7

\* The ranges begin with the first layer and end with the last.
LEMMA RangesCover ==
  ASSUME Count \in Nat \ {0}, config.layers \in Nat \ {0}
  PROVE  /\ Partitions[1].first_layer = 0
         /\ Partitions[Count].last_layer = config.layers - 1
<1>1. 1 \in 1 .. Count /\ Count \in 1 .. Count
  OBVIOUS
<1>2. first_layer(config.layers, Count, 0) = 0
  BY DEF first_layer
<1>3. last_layer(config.layers, Count, Count - 1) = config.layers - 1
  <2> DEFINE L == config.layers
             N == Count
             q == (L * N) \div N
  <2>1. L * N \in Int /\ N * L = L * N /\ N * (L + 1) = N * L + N
    OBVIOUS
  <2>2. q \in Int
    BY <2>1, DivBounds
  <2>3. L <= q <=> N * L <= L * N
    BY <2>1, DivAtLeast
  <2>4. L + 1 <= q <=> N * (L + 1) <= L * N
    BY <2>1, DivAtLeast
  <2>5. Count - 1 + 1 = Count
    OBVIOUS
  <2>6. last_layer(L, N, N - 1) = q - 1
    BY <2>5 DEF last_layer
  <2> HIDE DEF q
  <2>7. N * (L + 1) > L * N /\ L \in Int
    BY <2>1
  <2>8. L <= q
    BY <2>1, <2>3
  <2>9. ~(L + 1 <= q)
    BY <2>1, <2>4, <2>7
  <2>10. q = L
    BY <2>2, <2>7, <2>8, <2>9
  <2> QED
    BY <2>6, <2>10
<1> QED
  BY <1>1, <1>2, <1>3, PartitionFacts

\* What the stages refer to stays while the directory, the configuration and
\* the devices do.
LEMMA SameStage ==
  ASSUME directory' = directory, config' = config, devices' = devices
  PROVE  /\ Count' = Count /\ Partitions' = Partitions
         /\ \A w, n : LayersUpTo(w, n)' <=> LayersUpTo(w, n)
<1>1. Count' = Count
  BY DEF Count
<1>2. Partitions' = Partitions
  BY DEF Partitions, Partition, Count, D
<1>3. \A l : LoadedLayer(l)' = LoadedLayer(l)
  BY <1>2 DEF LoadedLayer, Owner, Listed
<1> QED
  BY <1>1, <1>2, <1>3 DEF LayersUpTo

LEMMA LoadedLayerFields ==
  \A l : /\ LoadedLayer(l).kind = config.layer_types[l + 1]
         /\ LoadedLayer(l).device = Owner(l) /\ LoadedLayer(l).from = directory
BY DEF LoadedLayer

LEMMA WholeModelFromLayers ==
  ASSUME Count \in Nat \ {0}, config.layers \in Nat \ {0},
         NEW w, LayersUpTo(w, config.layers),
         w.shared = <<devices[1], devices[Count], devices[Count]>>,
         \A k \in DOMAIN w.mtp :
           w.mtp[k].from = directory /\ w.mtp[k].device = devices[Count]
  PROVE  WholeModel(w)
<1>1. /\ w.partitions = Partitions /\ Len(w.layers) = config.layers
      /\ w.from = directory
      /\ \A l \in 0 .. config.layers - 1 : w.layers[l + 1] = LoadedLayer(l)
  BY DEF LayersUpTo
<1>2. /\ Len(Partitions) = Count
      /\ Partitions[1].device = devices[1] /\ Partitions[Count].device = devices[Count]
  BY PartitionFacts
<1>3. \A l \in 0 .. config.layers - 1 :
        w.layers[l + 1].from = directory /\ w.layers[l + 1].device = Owner(l)
  BY <1>1, LoadedLayerFields
<1>4. ASSUME NEW l \in 0 .. config.layers - 1
      PROVE  OnItsDevice(w, l)
  <2>1. PICK k \in DOMAIN Partitions :
          /\ Listed(k, l) /\ Owner(l) = Partitions[k].device
          /\ \A j \in DOMAIN Partitions : Listed(j, l) => j = k
    BY LayerHasOwner DEF LayerNumbers
  <2> QED
    BY <1>1, <1>3, <2>1 DEF OnItsDevice, Listed
<1>5. Partitions[1].first_layer = 0 /\ Partitions[Count].last_layer = config.layers - 1
  BY RangesCover
<1> QED
  BY <1>1, <1>2, <1>3, <1>4, <1>5 DEF WholeModel

LEMMA CoherentFromLayers ==
  ASSUME Count \in Nat \ {0}, config.layers \in Nat \ {0},
         config.layer_types = Schedule(config.layers, config.interval),
         devices \in Seq(Range(Machine) \cup {Cpu}),
         NEW w, LayersUpTo(w, config.layers)
  PROVE  /\ w.from = directory /\ Len(w.layers) = config.layers
         /\ [k \in 1 .. Len(w.layers) |-> w.layers[k].kind] = config.layer_types
         /\ [k \in DOMAIN w.partitions |-> w.partitions[k].device] = devices
<1>1. w.from = directory /\ Len(w.layers) = config.layers /\ w.partitions = Partitions
  BY DEF LayersUpTo
<1>2. \A k \in 1 .. config.layers : w.layers[k].kind = config.layer_types[k]
  <2>1. \A l \in 0 .. config.layers - 1 :
          w.layers[l + 1].kind = config.layer_types[l + 1]
    BY LoadedLayerFields DEF LayersUpTo
  <2>2. \A k \in 1 .. config.layers : k - 1 \in 0 .. config.layers - 1 /\ k - 1 + 1 = k
    OBVIOUS
  <2> QED
    BY <2>1, <2>2
<1>3. config.layer_types = [k \in 1 .. config.layers |-> config.layer_types[k]]
  BY DEF Schedule
<1>4. DOMAIN Partitions = DOMAIN devices
  BY PartitionFacts, LenProperties DEF Count
<1>5. devices = [k \in DOMAIN devices |-> devices[k]]
  BY SeqDef
<1>6. \A k \in DOMAIN devices : Partitions[k].device = devices[k]
  BY <1>4, PartitionFacts
<1> QED
  BY <1>1, <1>2, <1>3, <1>4, <1>5, <1>6

-----------------------------------------------------------------------------
\* The steps that change no part of the model.

LEMMA SameWeights ==
  ASSUME WeightsAreWhole, weights' = weights
  PROVE  WeightsAreWhole'
<1>1. weights' = NoWeights \/ WholeModel(weights')
  BY DEF WeightsAreWhole
<1>2. CASE weights' = NoWeights
  BY <1>2 DEF WeightsAreWhole
<1>3. CASE WholeModel(weights')
  BY <1>3 DEF WeightsAreWhole, WholeModel, OnItsDevice
<1> QED
  BY <1>1, <1>2, <1>3

LEMMA InitLoad == Init => LoadInv
<1> SUFFICES ASSUME Init PROVE LoadInv
  OBVIOUS
<1>1. ShapeInv
  <2>1. ConfigShape
    BY ConfigAssumption DEF Init, ConfigShape, IsRecord, RecordOf
  <2> QED BY <2>1 DEF Init, ShapeInv, WeightsShape, CallShape, NoCall, NoWeights
<1>2. StageInv
  BY DEF Init, StageInv, NoCall
<1> QED
  BY <1>1, <1>2
  DEF Init, LoadInv, ConfigInv, ResultInv, PublishInv, WeightsAreWhole,
      OkMeansCoherent, NoCall

LEMMA ReplaceLoad ==
  ASSUME LoadInv, Replace
  PROVE  LoadInv'
<1>1. ShapeInv'
  BY DEF LoadInv, Replace, generator, ShapeInv, ConfigShape, WeightsShape, CallShape
<1>2. StageInv'
  BY DEF LoadInv, Replace, generator, StageInv, Count
<1>3. WeightsAreWhole'
  BY SameWeights DEF LoadInv, Replace, generator
<1>4. OkMeansCoherent'
  BY DEF LoadInv, Replace, generator, OkMeansCoherent
<1> QED
  BY <1>1, <1>2, <1>3, <1>4
  DEF LoadInv, Replace, ConfigInv, ResultInv, PublishInv

LEMMA LoadModelLoad ==
  ASSUME LoadInv, LoadModel
  PROVE  LoadInv'
<1>1. ShapeInv'
  BY DEF LoadInv, LoadModel, generator, ShapeInv, ConfigShape, WeightsShape,
         CallShape, NoCall, NoWeights
<1>2. StageInv'
  BY DEF LoadInv, LoadModel, generator, StageInv, Count, NoCall
<1>3. WeightsAreWhole'
  BY SameWeights DEF LoadInv, LoadModel, generator
<1> QED
  BY <1>1, <1>2, <1>3
  DEF LoadInv, LoadModel, ConfigInv, ResultInv, PublishInv, OkMeansCoherent, NoCall

\* A call that fails leaves weights_ alone.
LEMMA FailLoad ==
  ASSUME LoadInv, call.pc # "idle", ConfigShape',
         call'.pc = "idle", call'.status \in {"failed", "threw"}, CallShape',
         call'.result = NoWeights, weights' = weights, options' = options,
         directory' = directory
  PROVE  LoadInv'
<1>1. ShapeInv'
  BY DEF LoadInv, ShapeInv, WeightsShape, NoWeights
<1>2. StageInv'
  BY DEF LoadInv, StageInv
<1>3. WeightsAreWhole'
  BY SameWeights DEF LoadInv
<1> QED
  BY <1>1, <1>2, <1>3
  DEF LoadInv, ConfigInv, ResultInv, PublishInv, OkMeansCoherent

LEMMA EndShape ==
  ASSUME CallShape, NEW how, End(how)
  PROVE  call'.pc = "idle" /\ call'.status = how /\ CallShape'
         /\ call'.result = NoWeights
BY DEF CallShape, End

LEMMA FailShape ==
  ASSUME CallShape, Fail \/ Throw
  PROVE  call'.pc = "idle" /\ call'.status \in {"failed", "threw"} /\ CallShape'
         /\ call'.result = NoWeights
BY EndShape DEF Fail, Throw

LEMMA BackendFailsLoad ==
  ASSUME LoadInv, BackendFails
  PROVE  LoadInv'
<1>1. call'.pc = "idle" /\ call'.status = "failed" /\ CallShape'
      /\ call'.result = NoWeights
  BY DEF LoadInv, ShapeInv, CallShape, BackendFails
<1> QED
  BY <1>1, FailLoad DEF LoadInv, ShapeInv, ConfigShape, BackendFails, generator

-----------------------------------------------------------------------------
\* The stages of load().

LEMMA GotoShape ==
  ASSUME CallShape, NEW pc, Goto(pc)
  PROVE  /\ CallShape' /\ call'.pc = pc /\ call'.status = call.status
         /\ call'.dir = call.dir /\ call'.result = call.result
         /\ call'.next_layer = call.next_layer
BY DEF CallShape, Goto

LEMMA SelectDevicesLoad ==
  ASSUME LoadInv, SelectDevices
  PROVE  LoadInv'
<1>1. ConfigShape' /\ CallShape
  BY DEF LoadInv, ShapeInv, ConfigShape, SelectDevices
<1>2. CASE Fail
  BY <1>1, <1>2, FailShape, FailLoad DEF SelectDevices
<1>3. CASE devices' # << >> /\ Goto("config")
  <2>1. /\ CallShape' /\ call'.pc = "config" /\ call'.status = call.status
        /\ call'.dir = call.dir /\ call'.result = call.result
        /\ call'.next_layer = call.next_layer
    BY <1>1, <1>3, GotoShape
  <2>2. ShapeInv'
    BY <1>1, <2>1 DEF LoadInv, ShapeInv, WeightsShape, SelectDevices
  <2>3. Count' \in Nat \ {0} /\ devices' \in Seq(Range(Machine) \cup {Cpu})
    <3>1. devices' \in Seq(Range(Machine) \cup {Cpu})
      BY SelectionAssumption DEF LoadInv, StageInv, SelectDevices
    <3> QED
      BY <1>3, <3>1, EmptySeq, LenProperties DEF Count
  <2>4. StageInv'
    BY <2>1, <2>3 DEF LoadInv, StageInv, SelectDevices
  <2>5. WeightsAreWhole'
    BY SameWeights DEF LoadInv, SelectDevices
  <2> QED
    BY <2>1, <2>2, <2>4, <2>5
    DEF LoadInv, StageInv, ConfigInv, ResultInv, PublishInv, OkMeansCoherent, SelectDevices
<1> QED
  BY <1>2, <1>3 DEF SelectDevices

\* config.json: what each field is read as.
LayersRead(old, f) == Field(f.layers, old.layers)
IntervalRead(old, f) == Field(f.interval, old.interval)
MtpRead(f) == Field(f.mtp, 0)
EosRead(f) == Field(f.eos, << >>)
TypesRead(old, f) == LayerTypes(f.layer_types, LayersRead(old, f), IntervalRead(old, f))
Numbers(old, f) ==
  RecordOf(LayersRead(old, f), IntervalRead(old, f), Overlay(old.sizes, f.sizes),
           Overlay(old.gates, f.gates), old.mtp, old.eos, old.layer_types)
Ended(old, f) ==
  RecordOf(LayersRead(old, f), IntervalRead(old, f), Overlay(old.sizes, f.sizes),
           Overlay(old.gates, f.gates), MtpRead(f), UpToBad(EosRead(f), BadId),
           old.layer_types)
WithTypes(old, f, types) ==
  RecordOf(LayersRead(old, f), IntervalRead(old, f), SizesRead(old.sizes, f),
           Overlay(old.gates, f.gates), MtpRead(f), UpToBad(EosRead(f), BadId), types)
Typed(old, f) == WithTypes(old, f, UpToBad(TypesRead(old, f), "unknown"))
Unreserved(old, f) ==
  CannotReserve(f.layer_types, LayersRead(old, f), IntervalRead(old, f))

LEMMA RecordFields ==
  ASSUME NEW l, NEW i, NEW s, NEW g, NEW m, NEW e, NEW t
  PROVE  LET r == RecordOf(l, i, s, g, m, e, t)
         IN /\ r.layers = l /\ r.interval = i /\ r.sizes = s /\ r.gates = g
            /\ r.mtp = m /\ r.eos = e /\ r.layer_types = t
BY DEF RecordOf

LEMMA LoadJsonIs ==
  ASSUME NEW old, NEW f, IsRecord(old)
  PROVE  LoadJson(old, f) =
           IF ~f.readable THEN [config |-> old, end |-> "failed"]
           ELSE IF MtpRead(f) \notin 0 .. MaxInt32
           THEN [config |-> Numbers(old, f), end |-> "failed"]
           ELSE IF UpToBad(EosRead(f), BadId) # EosRead(f)
           THEN [config |-> Ended(old, f), end |-> "failed"]
           ELSE IF Unreserved(old, f)
           THEN [config |-> WithTypes(old, f, << >>), end |-> "threw"]
           ELSE [config |-> Typed(old, f),
                 end |-> IF /\ UpToBad(TypesRead(old, f), "unknown") = TypesRead(old, f)
                            /\ ValidConfig(Typed(old, f))
                         THEN "ok" ELSE "failed"]
<1> DEFINE mtp == Field(f.mtp, 0)
           eos == Field(f.eos, << >>)
           numbers == [old EXCEPT !.layers = Field(f.layers, @),
                                  !.interval = Field(f.interval, @),
                                  !.sizes = Overlay(@, f.sizes),
                                  !.gates = Overlay(@, f.gates)]
           ended == [numbers EXCEPT !.mtp = mtp, !.eos = UpToBad(eos, BadId)]
           derived == [ended EXCEPT !.sizes = Derived(@, f), !.layer_types = << >>]
           types == LayerTypes(f.layer_types, derived.layers, derived.interval)
           typed == [derived EXCEPT !.layer_types = UpToBad(types, "unknown")]
<1>1. LoadJson(old, f) =
        IF ~f.readable THEN [config |-> old, end |-> "failed"]
        ELSE IF mtp \notin 0 .. MaxInt32 THEN [config |-> numbers, end |-> "failed"]
        ELSE IF ended.eos # eos THEN [config |-> ended, end |-> "failed"]
        ELSE IF CannotReserve(f.layer_types, derived.layers, derived.interval)
        THEN [config |-> derived, end |-> "threw"]
        ELSE [config |-> typed,
              end |-> IF typed.layer_types = types /\ ValidConfig(typed)
                      THEN "ok" ELSE "failed"]
  BY DEF LoadJson
<1>2. mtp = MtpRead(f) /\ eos = EosRead(f)
  BY DEF MtpRead, EosRead
<1>3. numbers = Numbers(old, f)
  <2> DEFINE a == Field(f.layers, old.layers)
             b == Field(f.interval, old.interval)
             c == Overlay(old.sizes, f.sizes)
             d == Overlay(old.gates, f.gates)
             l == old.layers
             i == old.interval
             s == old.sizes
             g == old.gates
             m == old.mtp
             e == old.eos
             t == old.layer_types
  <2>1. numbers = [old EXCEPT !.layers = a, !.interval = b, !.sizes = c, !.gates = d]
    OBVIOUS
  <2>2. Numbers(old, f) = RecordOf(a, b, c, d, m, e, t)
    BY DEF Numbers, LayersRead, IntervalRead
  <2>3. old = RecordOf(l, i, s, g, m, e, t)
    BY DEF IsRecord
  <2> HIDE DEF a, b, c, d, l, i, s, g, m, e, t, numbers
  <2>4. /\ [RecordOf(l, i, s, g, m, e, t) EXCEPT !.layers = a]
             = RecordOf(a, i, s, g, m, e, t)
        /\ [RecordOf(a, i, s, g, m, e, t) EXCEPT !.interval = b]
             = RecordOf(a, b, s, g, m, e, t)
        /\ [RecordOf(a, b, s, g, m, e, t) EXCEPT !.sizes = c]
             = RecordOf(a, b, c, g, m, e, t)
        /\ [RecordOf(a, b, c, g, m, e, t) EXCEPT !.gates = d]
             = RecordOf(a, b, c, d, m, e, t)
    BY DEF RecordOf
  <2>5. [RecordOf(l, i, s, g, m, e, t) EXCEPT
           !.layers = a, !.interval = b, !.sizes = c, !.gates = d]
          = RecordOf(a, b, c, d, m, e, t)
    BY <2>4
  <2> QED BY <2>1, <2>2, <2>3, <2>5
<1> DEFINE e == UpToBad(eos, BadId)
<1>4. ended = Ended(old, f) /\ ended.eos = UpToBad(EosRead(f), BadId)
  <2> HIDE DEF numbers, mtp, eos
  <2>1. ended = [numbers EXCEPT !.mtp = mtp, !.eos = e]
    OBVIOUS
  <2>2. e = UpToBad(EosRead(f), BadId)
    BY <1>2
  <2> DEFINE r(m, x) ==
        RecordOf(LayersRead(old, f), IntervalRead(old, f), Overlay(old.sizes, f.sizes),
                 Overlay(old.gates, f.gates), m, x, old.layer_types)
  <2>n. numbers = r(old.mtp, old.eos) /\ Ended(old, f) = r(mtp, e)
    BY <1>2, <1>3, <2>2 DEF Numbers, Ended
  <2> HIDE DEF ended, e
  <2>r. /\ [r(old.mtp, old.eos) EXCEPT !.mtp = mtp] = r(mtp, old.eos)
        /\ [r(mtp, old.eos) EXCEPT !.eos = e] = r(mtp, e)
    BY DEF RecordOf
  <2> HIDE DEF r
  <2>s. [r(old.mtp, old.eos) EXCEPT !.mtp = mtp, !.eos = e] = r(mtp, e)
    BY <2>r
  <2>3. ended = Ended(old, f)
    BY <2>1, <2>n, <2>s
  <2> QED BY <2>3, RecordFields DEF Ended
<1>5. /\ derived = WithTypes(old, f, << >>)
      /\ derived.layers = LayersRead(old, f) /\ derived.interval = IntervalRead(old, f)
  <2> HIDE DEF ended
  <2> DEFINE s == Derived(ended.sizes, f)
  <2>1. derived = [ended EXCEPT !.sizes = s, !.layer_types = << >>]
    OBVIOUS
  <2>2. s = SizesRead(old.sizes, f)
    <3>1. ended.sizes = Overlay(old.sizes, f.sizes)
      BY <1>4, RecordFields DEF Ended
    <3> QED BY <3>1 DEF SizesRead
  <2> DEFINE r(x, y) ==
        RecordOf(LayersRead(old, f), IntervalRead(old, f), x, Overlay(old.gates, f.gates),
                 MtpRead(f), UpToBad(EosRead(f), BadId), y)
  <2>n. ended = r(Overlay(old.sizes, f.sizes), old.layer_types)
        /\ WithTypes(old, f, << >>) = r(s, << >>)
    BY <1>4, <2>2 DEF Ended, WithTypes
  <2> HIDE DEF derived, s
  <2> DEFINE o == Overlay(old.sizes, f.sizes)
  <2>r. /\ [r(o, old.layer_types) EXCEPT !.sizes = s] = r(s, old.layer_types)
        /\ [r(s, old.layer_types) EXCEPT !.layer_types = << >>] = r(s, << >>)
    BY DEF RecordOf
  <2> HIDE DEF r
  <2>s. [r(o, old.layer_types) EXCEPT !.sizes = s, !.layer_types = << >>] = r(s, << >>)
    BY <2>r
  <2>3. derived = WithTypes(old, f, << >>)
    BY <2>1, <2>n, <2>s
  <2> QED BY <2>3, RecordFields DEF WithTypes
<1>6. types = TypesRead(old, f)
  <2> HIDE DEF derived
  <2> QED BY <1>5 DEF TypesRead
<1>7. typed = Typed(old, f) /\ typed.layer_types = UpToBad(TypesRead(old, f), "unknown")
  <2> DEFINE t == UpToBad(types, "unknown")
  <2> HIDE DEF derived, types
  <2>1. typed = [derived EXCEPT !.layer_types = t]
    OBVIOUS
  <2>2. t = UpToBad(TypesRead(old, f), "unknown")
    BY <1>6
  <2> DEFINE r(y) ==
        RecordOf(LayersRead(old, f), IntervalRead(old, f), SizesRead(old.sizes, f),
                 Overlay(old.gates, f.gates), MtpRead(f), UpToBad(EosRead(f), BadId), y)
  <2>n. derived = r(<< >>) /\ Typed(old, f) = r(t)
    BY <1>5, <2>2 DEF WithTypes, Typed
  <2> HIDE DEF typed, t
  <2>r. [r(<< >>) EXCEPT !.layer_types = t] = r(t)
    BY DEF RecordOf
  <2> HIDE DEF r
  <2>3. typed = Typed(old, f)
    BY <2>1, <2>n, <2>r
  <2> QED BY <2>3, RecordFields DEF Typed, WithTypes
<1> HIDE DEF mtp, eos, numbers, ended, derived, types, typed
<1> QED BY <1>1, <1>2, <1>3, <1>4, <1>5, <1>6, <1>7 DEF Unreserved

\* Keys and what they replace.
LEMMA KeyOrOld ==
  ASSUME NEW V, NEW key, IsKey(key, V), NEW old \in V
  PROVE  Field(key, old) \in V
<1>1. CASE key = << >>
  BY <1>1 DEF Field
<1>2. CASE key # << >>
  <2>1. key \in Seq(V) /\ Len(key) \in Nat \ {0}
    BY <1>2, EmptySeq DEF IsKey
  <2>2. key[1] \in V
    BY <2>1, ElementOfSeq
  <2> QED BY <1>2, <2>2 DEF Field
<1> QED BY <1>1, <1>2

LEMMA OverlayTypes ==
  ASSUME NEW K, NEW V, NEW old \in [K -> V], NEW given,
         given \in [DOMAIN given -> V]
  PROVE  /\ Overlay(old, given) \in [K -> V]
         /\ \A k \in K : Overlay(old, given)[k] =
              IF k \in DOMAIN given THEN given[k] ELSE old[k]
BY DEF Overlay

LEMMA QuotientInt ==
  ASSUME NEW a \in Int, NEW b \in Nat \ {0}
  PROVE  Quotient(a, b) \in Int
<1>1. a \div b \in Int /\ (-a) \div b \in Int
  <2>1. -a \in Int
    OBVIOUS
  <2> QED BY <2>1, DivBounds
<1> QED BY <1>1 DEF Quotient

\* The three sizes that may follow from others; the rest is what it was.
LEMMA DerivedIs ==
  ASSUME NEW s \in [Sizes -> Int], NEW f, IsConfig(f)
  PROVE  /\ Derived(s, f) \in [Sizes -> Int] /\ HeadDim(s, f) \in Int
         /\ Derived(s, f)["head_dim"] = HeadDim(s, f)
         /\ Derived(s, f)["rope_theta"] = Field(f.rope_theta, s["rope_theta"])
         /\ Derived(s, f)["rope_head_dim"] =
              IF f.rotary = << >> THEN s["rope_head_dim"]
              ELSE Quotient(HeadDim(s, f) * f.rotary[1], 4)
         /\ \A k \in Sizes \ {"head_dim", "rope_theta", "rope_head_dim"} :
              Derived(s, f)[k] = s[k]
<1> DEFINE h == HeadDim(s, f)
           t == Field(f.rope_theta, s["rope_theta"])
           r == IF f.rotary = << >> THEN s["rope_head_dim"] ELSE Quotient(h * f.rotary[1], 4)
<1>1. /\ {"head_dim", "rope_theta", "rope_head_dim"} \subseteq Sizes
      /\ {"num_attention_heads", "hidden_size"} \subseteq Sizes
  BY DEF Sizes
<1>2. h \in Int
  <2>1. s["num_attention_heads"] > 0 =>
          Quotient(s["hidden_size"], s["num_attention_heads"]) \in Int
    BY <1>1, QuotientInt
  <2> QED BY <1>1, <2>1 DEF HeadDim
<1>3. t \in Int
  BY <1>1, KeyOrOld DEF IsConfig
<1>4. r \in Int
  <2>1. CASE f.rotary = << >>
    BY <1>1, <2>1
  <2>2. CASE f.rotary # << >>
    <3>1. Field(f.rotary, 0) \in Int
      BY KeyOrOld DEF IsConfig
    <3>2. f.rotary[1] \in Int
      BY <2>2, <3>1 DEF Field
    <3>3. h * f.rotary[1] \in Int
      BY <1>2, <3>2
    <3> HIDE DEF h
    <3> QED BY <2>2, <3>3, QuotientInt
  <2> QED BY <2>1, <2>2
<1>5. Derived(s, f) =
        [s EXCEPT !["head_dim"] = h, !["rope_theta"] = t, !["rope_head_dim"] = r]
  BY DEF Derived
<1> HIDE DEF h, t, r
<1>6. /\ Derived(s, f) \in [Sizes -> Int]
      /\ Derived(s, f)["head_dim"] = h /\ Derived(s, f)["rope_theta"] = t
      /\ Derived(s, f)["rope_head_dim"] = r
      /\ \A k \in Sizes \ {"head_dim", "rope_theta", "rope_head_dim"} :
           Derived(s, f)[k] = s[k]
  BY <1>1, <1>2, <1>3, <1>4, <1>5
<1> QED BY <1>2, <1>6 DEF h, t, r

LEMMA ReadValues ==
  ASSUME NEW old, NEW f, IsRecord(old), IsConfig(f)
  PROVE  /\ LayersRead(old, f) \in Int
         /\ Overlay(old.sizes, f.sizes) \in [Sizes -> Int]
         /\ SizesRead(old.sizes, f) \in [Sizes -> Int]
         /\ Overlay(old.gates, f.gates) \in [Gates -> BOOLEAN]
<1>1. LayersRead(old, f) \in Int
  BY KeyOrOld DEF LayersRead, IsRecord, IsConfig
<1>2. Overlay(old.sizes, f.sizes) \in [Sizes -> Int]
  BY OverlayTypes DEF IsRecord, IsConfig
<1>3. Overlay(old.gates, f.gates) \in [Gates -> BOOLEAN]
  BY OverlayTypes DEF IsRecord, IsConfig
<1> QED BY <1>1, <1>2, <1>3, DerivedIs DEF SizesRead

LEMMA RecordsRead ==
  ASSUME NEW old, NEW f, IsRecord(old), IsConfig(f)
  PROVE  /\ IsRecord(Numbers(old, f)) /\ IsRecord(Ended(old, f))
         /\ IsRecord(WithTypes(old, f, << >>)) /\ IsRecord(Typed(old, f))
<1>1. \A l \in Int : \A s \in [Sizes -> Int] : \A g \in [Gates -> BOOLEAN] :
        \A i, m, e, t : IsRecord(RecordOf(l, i, s, g, m, e, t))
  BY RecordFields DEF IsRecord
<1> QED BY <1>1, ReadValues DEF Numbers, Ended, WithTypes, Typed

\* What a file settles is read alike whatever was there before.
LEMMA SettledAlike ==
  ASSUME NEW f, IsConfig(f), NEW a \in [Sizes -> Int], NEW b \in [Sizes -> Int],
         SizesRead(a, f)["num_attention_heads"] > 0
  PROVE  \A key \in Settled(f) : SizesRead(a, f)[key] = SizesRead(b, f)[key]
<1> DEFINE x == Overlay(a, f.sizes)
           y == Overlay(b, f.sizes)
           G == DOMAIN f.sizes
           Plain == Sizes \ {"head_dim", "rope_theta", "rope_head_dim"}
           Given == \/ "head_dim" \in G
                    \/ /\ ~f.odd_head_dim
                       /\ "hidden_size" \in G /\ "num_attention_heads" \in G
           Theta == "rope_theta" \in G \/ f.rope_theta # << >>
<1>1. /\ "head_dim" \in Sizes /\ "rope_theta" \in Sizes
      /\ "num_attention_heads" \in Plain /\ "hidden_size" \in Plain
      /\ G \subseteq Sizes /\ "rope_head_dim" \notin G /\ f.sizes \in [G -> Int]
  BY DEF Sizes, IsConfig
<1>2. /\ x \in [Sizes -> Int] /\ \A k \in Sizes : x[k] = IF k \in G THEN f.sizes[k] ELSE a[k]
      /\ y \in [Sizes -> Int] /\ \A k \in Sizes : y[k] = IF k \in G THEN f.sizes[k] ELSE b[k]
  <2> DEFINE z == f.sizes
  <2>1. z \in [DOMAIN z -> Int]
    BY <1>1
  <2> HIDE DEF z
  <2>2. \A c \in [Sizes -> Int] :
          /\ Overlay(c, z) \in [Sizes -> Int]
          /\ \A k \in Sizes : Overlay(c, z)[k] = IF k \in DOMAIN z THEN z[k] ELSE c[k]
    BY <2>1, OverlayTypes
  <2> QED BY <2>2 DEF z
<1>3. SizesRead(a, f) = Derived(x, f) /\ SizesRead(b, f) = Derived(y, f)
  BY DEF SizesRead
<1> HIDE DEF x, y
<1>d. /\ Derived(x, f)["head_dim"] = HeadDim(x, f)
      /\ Derived(x, f)["rope_theta"] = Field(f.rope_theta, x["rope_theta"])
      /\ f.rotary # << >> => Derived(x, f)["rope_head_dim"] =
                               Quotient(HeadDim(x, f) * f.rotary[1], 4)
      /\ \A k \in Plain : Derived(x, f)[k] = x[k]
  <2>1. x \in [Sizes -> Int]
    BY <1>2
  <2> HIDE DEF G
  <2> QED BY <2>1, DerivedIs
<1>e. /\ Derived(y, f)["head_dim"] = HeadDim(y, f)
      /\ Derived(y, f)["rope_theta"] = Field(f.rope_theta, y["rope_theta"])
      /\ f.rotary # << >> => Derived(y, f)["rope_head_dim"] =
                               Quotient(HeadDim(y, f) * f.rotary[1], 4)
      /\ \A k \in Plain : Derived(y, f)[k] = y[k]
  <2>1. y \in [Sizes -> Int]
    BY <1>2
  <2> HIDE DEF G
  <2> QED BY <2>1, DerivedIs
<1>4. x["num_attention_heads"] > 0
  BY <1>1, <1>3, <1>d
<1>5. ASSUME Given PROVE HeadDim(x, f) = HeadDim(y, f)
  <2>1. CASE "head_dim" \in G
    <3>1. x["head_dim"] = y["head_dim"]
      BY <1>1, <1>2, <2>1
    <3> QED BY <2>1, <3>1 DEF HeadDim
  <2>2. CASE /\ ~f.odd_head_dim /\ "head_dim" \notin G
             /\ "hidden_size" \in G /\ "num_attention_heads" \in G
    <3>1. x["hidden_size"] = y["hidden_size"]
          /\ x["num_attention_heads"] = y["num_attention_heads"]
      BY <1>1, <1>2, <2>2
    <3> QED BY <1>4, <2>2, <3>1 DEF HeadDim
  <2> QED BY <1>5, <2>1, <2>2
<1>6. \A k \in G \cap Plain : Derived(x, f)[k] = Derived(y, f)[k]
  <2>1. \A k \in G \cap Plain : x[k] = y[k]
    BY <1>1, <1>2
  <2> QED BY <1>d, <1>e, <2>1
<1>7. Given => Derived(x, f)["head_dim"] = Derived(y, f)["head_dim"]
  BY <1>5, <1>d, <1>e
<1>8. Theta => Derived(x, f)["rope_theta"] = Derived(y, f)["rope_theta"]
  <2>1. "rope_theta" \in G => x["rope_theta"] = y["rope_theta"]
    BY <1>1, <1>2
  <2>2. Theta => Field(f.rope_theta, x["rope_theta"]) = Field(f.rope_theta, y["rope_theta"])
    BY <2>1 DEF Field
  <2> QED BY <1>d, <1>e, <2>2
<1>9. Given /\ f.rotary # << >> =>
        Derived(x, f)["rope_head_dim"] = Derived(y, f)["rope_head_dim"]
  BY <1>5, <1>d, <1>e
<1>10. ASSUME NEW key \in Settled(f)
       PROVE  \/ key \in G \cap Plain
              \/ key = "head_dim" /\ Given
              \/ key = "rope_theta" /\ Theta
              \/ key = "rope_head_dim" /\ Given /\ f.rotary # << >>
  <2>1. CASE key \in G
    BY <1>1, <2>1
  <2>2. CASE key \notin G
    BY <2>2 DEF Settled
  <2> QED BY <2>1, <2>2
<1> HIDE DEF Given, Theta, Plain, G
<1> QED BY <1>3, <1>6, <1>7, <1>8, <1>9, <1>10

\* load_json() keeps the record's fields, and accepts valid values that are the
\* file's as far as it settles them.
LEMMA LoadJsonFacts ==
  ASSUME NEW old, NEW f, IsRecord(old), IsConfig(f)
  PROVE  LET c == LoadJson(old, f).config
         IN /\ IsRecord(c)
            /\ LoadJson(old, f).end \in {"ok", "failed", "threw"}
            /\ LoadJson(old, f).end = "ok" =>
                 ValidConfig(c) /\ Agrees(c, f, DefaultConfig)
<1> DEFINE n == Numbers(old, f)
           e == Ended(old, f)
           w == WithTypes(old, f, << >>)
           c == Typed(old, f)
           ok == /\ UpToBad(TypesRead(old, f), "unknown") = TypesRead(old, f)
                 /\ ValidConfig(c)
<1>1. IsRecord(n) /\ IsRecord(e) /\ IsRecord(w) /\ IsRecord(c)
  BY RecordsRead
<1>2. /\ c.layers = LayersRead(old, f) /\ c.interval = IntervalRead(old, f)
      /\ c.sizes = SizesRead(old.sizes, f) /\ c.gates = Overlay(old.gates, f.gates)
      /\ c.mtp = MtpRead(f) /\ c.eos = UpToBad(EosRead(f), BadId)
  BY RecordFields DEF Typed, WithTypes
<1>3. UpToBad(EosRead(f), BadId) = EosRead(f) /\ ValidConfig(c) =>
        Agrees(c, f, DefaultConfig)
  <2> SUFFICES ASSUME UpToBad(EosRead(f), BadId) = EosRead(f), ValidConfig(c)
               PROVE  Agrees(c, f, DefaultConfig)
    OBVIOUS
  <2>1. \A key \in Settled(f) : c.sizes[key] = SizesRead(DefaultConfig.sizes, f)[key]
    <3>1. old.sizes \in [Sizes -> Int] /\ DefaultConfig.sizes \in [Sizes -> Int]
      BY ConfigAssumption DEF IsRecord
    <3>2. c.sizes["num_attention_heads"] > 0
      BY DEF ValidConfig, SizesFit, Sizes
    <3> HIDE DEF c
    <3> QED BY <1>2, <3>1, <3>2, SettledAlike
  <2>2. \A gate \in DOMAIN f.gates : c.gates[gate] = f.gates[gate]
    <3> HIDE DEF c
    <3>1. old.gates \in [Gates -> BOOLEAN] /\ DOMAIN f.gates \subseteq Gates
          /\ f.gates \in [DOMAIN f.gates -> BOOLEAN]
      BY DEF IsRecord, IsConfig
    <3> QED BY <1>2, <3>1, OverlayTypes
  <2>3. /\ c.layers = Field(f.layers, c.layers)
        /\ c.interval = Field(f.interval, c.interval)
    <3> HIDE DEF c
    <3> QED BY <1>2 DEF LayersRead, IntervalRead, Field
  <2>4. c.mtp = Field(f.mtp, 0) /\ c.eos = Field(f.eos, << >>)
    <3> HIDE DEF c
    <3> QED BY <1>2 DEF MtpRead, EosRead
  <2> HIDE DEF c
  <2> QED BY <2>1, <2>2, <2>3, <2>4 DEF Agrees
<1>4. LoadJson(old, f) =
        IF ~f.readable THEN [config |-> old, end |-> "failed"]
        ELSE IF MtpRead(f) \notin 0 .. MaxInt32 THEN [config |-> n, end |-> "failed"]
        ELSE IF UpToBad(EosRead(f), BadId) # EosRead(f)
        THEN [config |-> e, end |-> "failed"]
        ELSE IF Unreserved(old, f) THEN [config |-> w, end |-> "threw"]
        ELSE [config |-> c, end |-> IF ok THEN "ok" ELSE "failed"]
  BY LoadJsonIs
<1> HIDE DEF n, e, w, c
<1> QED BY <1>1, <1>3, <1>4

LEMMA ReadConfigLoad ==
  ASSUME LoadInv, ReadConfig
  PROVE  LoadInv'
<1> DEFINE json == LoadJson(config, D.config)
<1>1. directory \in Directory /\ IsConfig(D.config)
  BY DirectoryAssumption DEF LoadInv, StageInv, ReadConfig, D, IsDirectory
<1>2. /\ config' = json.config /\ CallShape /\ ConfigShape'
      /\ json.end \in {"ok", "failed", "threw"}
      /\ json.end = "ok" => ValidConfig(config') /\ Agrees(config', D.config, DefaultConfig)
  <2>1. config' = json.config
    BY DEF ReadConfig
  <2> QED
    BY <1>1, <2>1, LoadJsonFacts DEF LoadInv, ShapeInv, ConfigShape
<1> HIDE DEF json
<1>3. CASE json.end # "ok" /\ End(json.end)
  <2>1. /\ call'.pc = "idle" /\ call'.status \in {"failed", "threw"} /\ CallShape'
        /\ call'.result = NoWeights
    BY <1>2, <1>3, EndShape
  <2> QED BY <1>2, <2>1, FailLoad DEF ReadConfig
<1>4. CASE json.end = "ok" /\ Goto("open")
  <2>1. /\ CallShape' /\ call'.pc = "open" /\ call'.status = call.status
        /\ call'.dir = call.dir /\ call'.result = call.result
        /\ call'.next_layer = call.next_layer
    BY <1>2, <1>4, GotoShape
  <2>2. ShapeInv'
    BY <1>2, <2>1 DEF LoadInv, ShapeInv, WeightsShape, ReadConfig
  <2>3. StageInv'
    BY <2>1 DEF LoadInv, StageInv, ReadConfig, Count
  <2>4. ConfigInv'
    <3>1. config'.layers \in Nat \ {0}
          /\ config'.layer_types = Schedule(config'.layers, config'.interval)
      BY <1>2, <1>4 DEF ConfigShape, IsRecord, ValidConfig
    <3>2. D' = D
      BY DEF ReadConfig, D
    <3> QED BY <1>2, <1>4, <3>1, <3>2 DEF ConfigInv
  <2>5. WeightsAreWhole'
    BY SameWeights DEF LoadInv, ReadConfig
  <2> QED
    BY <2>1, <2>2, <2>3, <2>4, <2>5
    DEF LoadInv, StageInv, ResultInv, PublishInv, OkMeansCoherent, ReadConfig
<1> QED
  BY <1>3, <1>4 DEF ReadConfig, json

LEMMA OpenLoaderLoad ==
  ASSUME LoadInv, OpenLoader
  PROVE  LoadInv'
<1>1. ConfigShape' /\ CallShape
  BY DEF LoadInv, ShapeInv, ConfigShape, OpenLoader, generator
<1>2. CASE Fail \/ Throw
  BY <1>1, <1>2, FailShape, FailLoad DEF OpenLoader, generator
<1>3. CASE Goto("plan")
  <2>1. /\ CallShape' /\ call'.pc = "plan" /\ call'.status = call.status
        /\ call'.dir = call.dir /\ call'.result = call.result
        /\ call'.next_layer = call.next_layer
    BY <1>1, <1>3, GotoShape
  <2>2. ShapeInv'
    BY <1>1, <2>1 DEF LoadInv, ShapeInv, WeightsShape, OpenLoader, generator
  <2>3. StageInv'
    BY <2>1 DEF LoadInv, StageInv, OpenLoader, generator, Count
  <2>4. ConfigInv'
    BY DEF LoadInv, ConfigInv, D, OpenLoader, generator
  <2>5. WeightsAreWhole'
    BY SameWeights DEF LoadInv, OpenLoader, generator
  <2> QED
    BY <2>1, <2>2, <2>3, <2>4, <2>5
    DEF LoadInv, StageInv, ResultInv, PublishInv, OkMeansCoherent, OpenLoader
<1> QED
  BY <1>2, <1>3 DEF OpenLoader

LEMMA PlanDistributedLoad ==
  ASSUME LoadInv, PlanDistributed
  PROVE  LoadInv'
<1>1. ConfigShape' /\ CallShape
  BY DEF LoadInv, ShapeInv, ConfigShape, PlanDistributed, generator
<1>2. CASE Fail
  BY <1>1, <1>2, FailShape, FailLoad DEF PlanDistributed, generator
<1>3. CASE call' = [call EXCEPT !.pc = "layers",
                      !.result = [NoWeights EXCEPT !.from = directory,
                                                   !.partitions = Partitions]]
  <2> DEFINE r == [NoWeights EXCEPT !.from = directory, !.partitions = Partitions]
  <2>1. /\ r.from = directory /\ r.partitions = Partitions /\ r.layers = << >>
        /\ r.mtp = << >> /\ WeightsShape(r)
    <3> DEFINE p == Partitions
    <3>1. r = [NoWeights EXCEPT !.from = directory, !.partitions = p]
      OBVIOUS
    <3> HIDE DEF p, r
    <3>2. r = [from |-> directory, layers |-> << >>, partitions |-> p,
               shared |-> << >>, total |-> 0, mtp |-> << >>]
      BY <3>1 DEF NoWeights
    <3> QED
      BY <3>2 DEF WeightsShape, p
  <2> HIDE DEF r
  <2>2. /\ CallShape' /\ call'.pc = "layers" /\ call'.status = call.status
        /\ call'.dir = call.dir /\ call'.result = r
        /\ call'.next_layer = call.next_layer
    BY <1>1, <1>3 DEF CallShape, r
  <2>3. ShapeInv'
    BY <1>1, <2>1, <2>2 DEF LoadInv, ShapeInv, WeightsShape, PlanDistributed, generator
  <2>4. StageInv'
    BY <2>2 DEF LoadInv, StageInv, PlanDistributed, generator, Count
  <2>5. ConfigInv'
    BY DEF LoadInv, ConfigInv, D, PlanDistributed, generator
  <2>6. ResultInv'
    <3>1. LayersUpTo(r, 0)
      <4> DEFINE S == {LoadedLayer(l) : l \in LayerNumbers(config.layers)}
      <4>1. << >> \in Seq(S) /\ Len(<< >>) = 0
        BY EmptySeq
      <4>2. 0 \in 0 .. config.layers
        BY DEF LoadInv, ConfigInv, PlanDistributed
      <4>3. \A l \in 0 .. 0 - 1 : r.layers[l + 1] = LoadedLayer(l)
        OBVIOUS
      <4> QED
        BY <2>1, <4>1, <4>2, <4>3 DEF LayersUpTo
    <3>2. call.next_layer = 0
      BY DEF LoadInv, StageInv, PlanDistributed
    <3> QED
      BY <2>1, <2>2, <3>1, <3>2, SameStage DEF ResultInv, PlanDistributed, generator
  <2>7. WeightsAreWhole'
    BY SameWeights DEF LoadInv, PlanDistributed, generator
  <2> QED
    BY <2>2, <2>3, <2>4, <2>5, <2>6, <2>7
    DEF LoadInv, StageInv, PublishInv, OkMeansCoherent, PlanDistributed
<1> QED
  BY <1>2, <1>3 DEF PlanDistributed

\* The layer that is loaded next is the one its partition lists.
LEMMA NextLayerLoaded ==
  ASSUME LoadInv, call.pc = "layers", call.next_layer < config.layers,
         LayerLoads(D, config, call.next_layer)
  PROVE  LET l == call.next_layer IN
         [kind |-> KindFound(D, l), device |-> OwnerOf(l), from |-> directory]
           = LoadedLayer(l)
<1> DEFINE l == call.next_layer
<1>1. call.result.partitions = Partitions /\ l \in 0 .. config.layers
  BY DEF LoadInv, ResultInv, LayersUpTo
<1>2. OwnerOf(l) = Owner(l)
  BY <1>1 DEF OwnerOf, Owner, Listed
<1>3. config.layer_types[l + 1] \in {"full", "linear"}
  <2>1. config.layer_types = Schedule(config.layers, config.interval)
        /\ config.layers \in Nat \ {0}
    BY DEF LoadInv, ConfigInv
  <2>2. l + 1 \in 1 .. config.layers
    BY <1>1, <2>1
  <2> DEFINE i == l + 1
  <2> HIDE DEF i
  <2>3. Schedule(config.layers, config.interval)[i] = KindAt(i - 1, config.interval)
    BY <2>2 DEF Schedule, i
  <2>4. KindAt(i - 1, config.interval) \in {"full", "linear"}
    BY DEF KindAt
  <2> QED
    BY <2>1, <2>3, <2>4 DEF i
<1>4. (config.layer_types[l + 1] = "full") = (Of(l, "attention") \in Tensors(D))
  BY DEF LayerLoads
<1>5. KindFound(D, l) = config.layer_types[l + 1]
  BY <1>3, <1>4 DEF KindFound
<1> QED
  BY <1>2, <1>5 DEF LoadedLayer

LEMMA LoadLayerLoad ==
  ASSUME LoadInv, LoadLayer
  PROVE  LoadInv'
<1> DEFINE l == call.next_layer
           x == [kind |-> KindFound(D, l), device |-> OwnerOf(l), from |-> directory]
<1>1. ConfigShape' /\ CallShape
  BY DEF LoadInv, ShapeInv, ConfigShape, LoadLayer, generator
<1>2. CASE Fail
  BY <1>1, <1>2, FailShape, FailLoad DEF LoadLayer, generator
<1>3. CASE /\ LayerLoads(D, config, l)
           /\ call' = [call EXCEPT !.next_layer = l + 1, !.result.layers = Append(@, x)]
  <2>1. x = LoadedLayer(l)
    BY <1>3, NextLayerLoaded DEF LoadLayer
  <2> HIDE DEF x
  <2>2. /\ CallShape' /\ call'.pc = "layers" /\ call'.status = call.status
        /\ call'.dir = call.dir /\ call'.next_layer = l + 1
        /\ call'.result = [call.result EXCEPT !.layers = Append(@, x)]
    BY <1>1, <1>3 DEF CallShape, LoadLayer
  <2>3. /\ WeightsShape(call'.result) /\ call'.result.mtp = call.result.mtp
        /\ call'.result.from = call.result.from
        /\ call'.result.partitions = call.result.partitions
        /\ call'.result.layers = Append(call.result.layers, x)
    BY <2>2 DEF LoadInv, ShapeInv, WeightsShape
  <2>4. ShapeInv'
    BY <1>1, <2>2, <2>3 DEF LoadInv, ShapeInv, WeightsShape, LoadLayer, generator
  <2>5. StageInv'
    BY <2>2 DEF LoadInv, StageInv, LoadLayer, generator, Count
  <2>6. ConfigInv'
    BY DEF LoadInv, ConfigInv, D, LoadLayer, generator
  <2>7. ResultInv'
    <3> DEFINE S == {LoadedLayer(k) : k \in LayerNumbers(config.layers)}
               s == call.result.layers
    <3>1. /\ s \in Seq(S) /\ Len(s) = l /\ l \in 0 .. config.layers /\ l < config.layers
          /\ config.layers \in Nat
          /\ \A k \in 0 .. l - 1 : s[k + 1] = LoadedLayer(k)
          /\ call.result.from = directory /\ call.result.partitions = Partitions
          /\ call.result.mtp = << >>
      BY DEF LoadInv, ResultInv, LayersUpTo, LoadLayer, ConfigInv
    <3>2. x \in S
      BY <2>1, <3>1 DEF LayerNumbers
    <3> DEFINE t == Append(s, x)
               n == l + 1
    <3> HIDE DEF S, s
    <3>3. /\ t \in Seq(S) /\ Len(t) = n /\ t[n] = x
          /\ \A i \in 1 .. l : t[i] = s[i]
      BY <3>1, <3>2, AppendProperties
    <3>n. n \in 0 .. config.layers /\ \A k \in 0 .. n - 1 : k \in 0 .. l - 1 \/ k = l
      BY <3>1
    <3>i. \A k \in 0 .. l - 1 : k + 1 \in 1 .. l
      BY <3>1
    <3> HIDE DEF t
    <3>4. ASSUME NEW k \in 0 .. n - 1 PROVE t[k + 1] = LoadedLayer(k)
      <4>1. CASE k = l
        BY <2>1, <3>3, <4>1
      <4>2. CASE k \in 0 .. l - 1
        BY <3>1, <3>3, <3>i, <4>2
      <4> QED BY <3>n, <4>1, <4>2
    <3>5. LayersUpTo(call'.result, l + 1)
      <4> DEFINE r == call'.result
      <4>1. r.from = directory /\ r.partitions = Partitions /\ r.layers = t
        BY <2>3, <3>1 DEF s, t
      <4> HIDE DEF r, n
      <4>2. /\ r.layers \in Seq({LoadedLayer(k) : k \in LayerNumbers(config.layers)})
            /\ Len(r.layers) = n /\ \A k \in 0 .. n - 1 : r.layers[k + 1] = LoadedLayer(k)
        BY <3>3, <3>4, <4>1 DEF S
      <4>3. LayersUpTo(r, n)
        BY <3>n, <4>1, <4>2 DEF LayersUpTo
      <4> QED BY <4>3 DEF r, n
    <3> QED
      BY <2>2, <2>3, <3>1, <3>5, SameStage DEF ResultInv, LoadLayer, generator
  <2>8. WeightsAreWhole'
    BY SameWeights DEF LoadInv, LoadLayer, generator
  <2> QED
    BY <2>2, <2>4, <2>5, <2>6, <2>7, <2>8
    DEF LoadInv, StageInv, PublishInv, OkMeansCoherent, LoadLayer
<1> QED
  BY <1>2, <1>3 DEF LoadLayer

LEMMA LoadSharedLoad ==
  ASSUME LoadInv, LoadShared
  PROVE  LoadInv'
<1>1. ConfigShape' /\ CallShape
  BY DEF LoadInv, ShapeInv, ConfigShape, LoadShared
<1>2. CASE Fail /\ UNCHANGED weights
  BY <1>1, <1>2, FailShape, FailLoad DEF LoadShared
<1>3. CASE /\ weights' = WholeResult(call.result)
           /\ call' = [call EXCEPT !.result = NoWeights,
                         !.pc = IF options.enable_mtp THEN "mtp" ELSE "tokenizer"]
  <2> DEFINE r == call.result
             pc == IF options.enable_mtp THEN "mtp" ELSE "tokenizer"
  <2>1. /\ CallShape' /\ call'.pc = pc /\ call'.status = call.status
        /\ call'.dir = call.dir /\ call'.result = NoWeights
    BY <1>1, <1>3 DEF CallShape
  <2>2. pc \in {"mtp", "tokenizer"} /\ (pc = "mtp" <=> options.enable_mtp)
    BY LoadingAssumption DEF LoadInv, StageInv
  <2>3. LayersUpTo(r, config.layers) /\ r.mtp = << >>
    BY DEF LoadInv, ResultInv, LoadShared
  <2> HIDE DEF pc
  <2>4. /\ WeightsShape(weights') /\ weights'.from = r.from
        /\ weights'.layers = r.layers /\ weights'.partitions = r.partitions
        /\ weights'.mtp = r.mtp
        /\ weights'.shared = <<devices[1], devices[Count], devices[Count]>>
    <3> DEFINE t == SumFunction([k \in DOMAIN r.partitions |->
                                   r.partitions[k].weight_bytes])
               h == <<devices[1], devices[Count], devices[Count]>>
    <3>1. weights' = [r EXCEPT !.shared = h, !.total = t]
      BY <1>3 DEF WholeResult
    <3>2. WeightsShape(r)
      BY DEF LoadInv, ShapeInv
    <3> HIDE DEF t, h, r
    <3>3. weights' = [from |-> r.from, layers |-> r.layers,
                      partitions |-> r.partitions, shared |-> h, total |-> t,
                      mtp |-> r.mtp]
      BY <3>1, <3>2 DEF WeightsShape
    <3> QED
      BY <3>3 DEF WeightsShape, h
  <2>5. LayersUpTo(weights', config.layers)
    BY <2>3, <2>4 DEF LayersUpTo
  <2>6. /\ Count \in Nat \ {0} /\ config.layers \in Nat \ {0}
        /\ config' = config /\ directory' = directory /\ devices' = devices
        /\ options' = options
    BY DEF LoadInv, StageInv, ConfigInv, LoadShared
  <2>7. ShapeInv'
    BY <1>1, <2>1, <2>4 DEF ShapeInv, WeightsShape, NoWeights
  <2>8. StageInv'
    BY <2>1, <2>2, <2>6 DEF LoadInv, StageInv, LoadShared, Count
  <2>9. ConfigInv'
    BY <2>6 DEF LoadInv, ConfigInv, D, LoadShared
  <2>10. PublishInv'
    <3>1. LayersUpTo(weights, config.layers)'
      BY <2>5, <2>6, SameStage
    <3>2. Count' = Count
      BY <2>6, SameStage
    <3> QED
      BY <2>1, <2>2, <2>3, <2>4, <2>6, <3>1, <3>2 DEF PublishInv
  <2>11. WeightsAreWhole'
    <3>1. WholeModel(weights')
      BY <2>3, <2>4, <2>5, <2>6, WholeModelFromLayers
    <3> QED
      BY <3>1 DEF WeightsAreWhole, WholeModel, OnItsDevice
  <2> QED
    BY <2>1, <2>2, <2>7, <2>8, <2>9, <2>10, <2>11
    DEF LoadInv, StageInv, ResultInv, OkMeansCoherent, LoadShared
<1> QED
  BY <1>2, <1>3 DEF LoadShared

LEMMA LoadMtpLoad ==
  ASSUME LoadInv, LoadMtp
  PROVE  LoadInv'
<1> DEFINE m == <<[from |-> directory, device |-> devices[Count],
                   layers |-> config.mtp]>>
<1>1. ConfigShape' /\ CallShape
  BY DEF LoadInv, ShapeInv, ConfigShape, LoadMtp
<1>2. CASE Fail /\ UNCHANGED weights
  BY <1>1, <1>2, FailShape, FailLoad DEF LoadMtp
<1>3. CASE weights' = [weights EXCEPT !.mtp = m] /\ Goto("tokenizer")
  <2>1. /\ CallShape' /\ call'.pc = "tokenizer" /\ call'.status = call.status
        /\ call'.dir = call.dir /\ call'.result = call.result
        /\ call'.next_layer = call.next_layer
    BY <1>1, <1>3, GotoShape
  <2>2. /\ m # << >> /\ m[1].layers = config.mtp
        /\ \A k \in DOMAIN m : m[k].from = directory /\ m[k].device = devices[Count]
    OBVIOUS
  <2> HIDE DEF m
  <2>3. /\ WeightsShape(weights') /\ weights'.from = weights.from
        /\ weights'.layers = weights.layers
        /\ weights'.partitions = weights.partitions
        /\ weights'.mtp = m /\ weights'.shared = weights.shared
    BY <1>3 DEF LoadInv, ShapeInv, WeightsShape
  <2>4. /\ Count \in Nat \ {0} /\ config.layers \in Nat \ {0}
        /\ config' = config /\ directory' = directory /\ devices' = devices
        /\ options' = options
    BY DEF LoadInv, StageInv, ConfigInv, LoadMtp
  <2>5. /\ LayersUpTo(weights, config.layers) /\ options.enable_mtp
        /\ weights.shared = <<devices[1], devices[Count], devices[Count]>>
    BY DEF LoadInv, PublishInv, LoadMtp
  <2>6. LayersUpTo(weights', config.layers)
    BY <2>3, <2>5 DEF LayersUpTo
  <2>7. ShapeInv'
    BY <1>1, <2>1, <2>3 DEF LoadInv, ShapeInv, WeightsShape
  <2>8. StageInv'
    BY <2>1, <2>4 DEF LoadInv, StageInv, LoadMtp, Count
  <2>9. ConfigInv'
    BY <2>4 DEF LoadInv, ConfigInv, D, LoadMtp
  <2>10. PublishInv'
    <3>1. LayersUpTo(weights, config.layers)'
      BY <2>4, <2>6, SameStage
    <3>2. Count' = Count
      BY <2>4, SameStage
    <3> QED
      BY <2>1, <2>2, <2>3, <2>4, <2>5, <3>1, <3>2 DEF PublishInv
  <2>11. WeightsAreWhole'
    <3>1. WholeModel(weights')
      BY <2>2, <2>3, <2>4, <2>5, <2>6, WholeModelFromLayers
    <3> QED
      BY <3>1 DEF WeightsAreWhole, WholeModel, OnItsDevice
  <2> QED
    BY <2>1, <2>7, <2>8, <2>9, <2>10, <2>11
    DEF LoadInv, StageInv, ResultInv, OkMeansCoherent, LoadMtp
<1> QED
  BY <1>2, <1>3 DEF LoadMtp

LEMMA ReadTokenizerLoad ==
  ASSUME LoadInv, ReadTokenizer
  PROVE  LoadInv'
<1>1. ConfigShape' /\ CallShape
  BY DEF LoadInv, ShapeInv, ConfigShape, ReadTokenizer
<1>2. CASE Fail \/ Throw
  BY <1>1, <1>2, FailShape, FailLoad DEF ReadTokenizer
<1>3. CASE tokenizer'.bytes /\ Goto("publish")
  <2>1. /\ CallShape' /\ call'.pc = "publish" /\ call'.status = call.status
        /\ call'.dir = call.dir /\ call'.result = call.result
        /\ call'.next_layer = call.next_layer
    BY <1>1, <1>3, GotoShape
  <2>2. tokenizer'.vocab = directory
    BY <1>3 DEF ReadTokenizer, LoadTokenizer
  <2>3. /\ config' = config /\ directory' = directory /\ devices' = devices
        /\ options' = options /\ weights' = weights
    BY DEF ReadTokenizer
  <2>4. ShapeInv'
    BY <1>1, <2>1, <2>3 DEF LoadInv, ShapeInv, WeightsShape
  <2>5. StageInv'
    BY <2>1, <2>3 DEF LoadInv, StageInv, ReadTokenizer, Count
  <2>6. ConfigInv'
    BY <2>3 DEF LoadInv, ConfigInv, D, ReadTokenizer
  <2>7. PublishInv'
    <3>1. LayersUpTo(weights, config.layers)'
      BY <2>3, SameStage DEF LoadInv, PublishInv, ReadTokenizer
    <3>2. Count' = Count
      BY <2>3, SameStage
    <3> QED
      BY <1>3, <2>1, <2>2, <2>3, <3>1, <3>2
      DEF LoadInv, PublishInv, ReadTokenizer
  <2>8. WeightsAreWhole'
    BY <2>3, SameWeights DEF LoadInv
  <2> QED
    BY <2>1, <2>4, <2>5, <2>6, <2>7, <2>8
    DEF LoadInv, StageInv, ResultInv, OkMeansCoherent, ReadTokenizer
<1> QED
  BY <1>2, <1>3 DEF ReadTokenizer

LEMMA PublishLoad ==
  ASSUME LoadInv, Publish
  PROVE  LoadInv'
<1>1. /\ CallShape' /\ call'.pc = "idle" /\ call'.status = "ok"
      /\ call'.dir = call.dir /\ call'.result = call.result
  BY DEF LoadInv, ShapeInv, CallShape, Publish
<1>2. /\ config' = config /\ directory' = directory /\ devices' = devices
      /\ options' = options /\ weights' = weights /\ tokenizer' = tokenizer
      /\ loaded' = TRUE
      /\ caches' = [attention |-> config.layers, mtp |-> config.mtp,
                    deltanet |-> config.layers]
  BY DEF Publish, CacheSizes
<1>3. ShapeInv'
  BY <1>1, <1>2 DEF LoadInv, ShapeInv, ConfigShape, WeightsShape
<1>4. StageInv'
  BY <1>1, <1>2 DEF LoadInv, StageInv
<1>5. WeightsAreWhole'
  BY <1>2, SameWeights DEF LoadInv
<1>6. OkMeansCoherent'
  <2>1. /\ Count \in Nat \ {0} /\ devices \in Seq(Range(Machine) \cup {Cpu})
        /\ config.layers \in Nat \ {0} /\ call.dir = directory
        /\ config.layer_types = Schedule(config.layers, config.interval)
        /\ ValidConfig(config)
        /\ Agrees(config, Content(call.dir).config, DefaultConfig)
    BY DEF LoadInv, StageInv, ConfigInv, Publish, D
  <2>2. /\ LayersUpTo(weights, config.layers)
        /\ IF options.enable_mtp
           THEN weights.mtp # << >> /\ weights.mtp[1].layers = config.mtp
           ELSE weights.mtp = << >>
        /\ tokenizer.vocab = directory /\ tokenizer.bytes
    BY DEF LoadInv, PublishInv, Publish
  <2>3. /\ weights.from = directory /\ Len(weights.layers) = config.layers
        /\ [k \in 1 .. Len(weights.layers) |-> weights.layers[k].kind]
             = config.layer_types
        /\ [k \in DOMAIN weights.partitions |-> weights.partitions[k].device]
             = devices
    BY <2>1, <2>2, CoherentFromLayers
  <2> QED
    BY <1>1, <1>2, <2>1, <2>2, <2>3 DEF OkMeansCoherent
<1> QED
  BY <1>1, <1>3, <1>4, <1>5, <1>6 DEF LoadInv, ConfigInv, ResultInv, PublishInv

-----------------------------------------------------------------------------
LEMMA StutterLoad ==
  ASSUME LoadInv, UNCHANGED vars
  PROVE  LoadInv'
<1>1. /\ directory' = directory /\ options' = options /\ loaded' = loaded
      /\ config' = config /\ devices' = devices /\ weights' = weights
      /\ tokenizer' = tokenizer /\ caches' = caches /\ call' = call
  BY DEF vars, generator
<1>2. ShapeInv'
  BY <1>1 DEF LoadInv, ShapeInv, ConfigShape, WeightsShape, CallShape
<1>3. StageInv' /\ ConfigInv'
  BY <1>1 DEF LoadInv, StageInv, ConfigInv, Count, D
<1>4. ResultInv' /\ PublishInv'
  <2>1. \A w, n : LayersUpTo(w, n)' <=> LayersUpTo(w, n)
    BY <1>1, SameStage
  <2>2. Count' = Count
    BY <1>1, SameStage
  <2> QED
    BY <1>1, <2>1, <2>2 DEF LoadInv, ResultInv, PublishInv
<1>5. WeightsAreWhole'
  BY <1>1, SameWeights DEF LoadInv
<1>6. OkMeansCoherent'
  BY <1>1 DEF LoadInv, OkMeansCoherent
<1> QED
  BY <1>2, <1>3, <1>4, <1>5, <1>6 DEF LoadInv

LEMMA NextLoad ==
  ASSUME LoadInv, [Next]_vars
  PROVE  LoadInv'
<1>1. CASE Replace
  BY <1>1, ReplaceLoad
<1>2. CASE LoadModel
  BY <1>2, LoadModelLoad
<1>3. CASE SelectDevices
  BY <1>3, SelectDevicesLoad
<1>4. CASE ReadConfig
  BY <1>4, ReadConfigLoad
<1>5. CASE OpenLoader
  BY <1>5, OpenLoaderLoad
<1>6. CASE PlanDistributed
  BY <1>6, PlanDistributedLoad
<1>7. CASE LoadLayer
  BY <1>7, LoadLayerLoad
<1>8. CASE LoadShared
  BY <1>8, LoadSharedLoad
<1>9. CASE LoadMtp
  BY <1>9, LoadMtpLoad
<1>10. CASE ReadTokenizer
  BY <1>10, ReadTokenizerLoad
<1>11. CASE Publish
  BY <1>11, PublishLoad
<1>12. CASE BackendFails
  BY <1>12, BackendFailsLoad
<1>13. CASE UNCHANGED vars
  BY <1>13, StutterLoad
<1> QED
  BY <1>1, <1>2, <1>3, <1>4, <1>5, <1>6, <1>7, <1>8, <1>9, <1>10, <1>11, <1>12,
     <1>13 DEF Next, Step

LEMMA LoadingInvariant == Spec => []LoadInv
BY InitLoad, NextLoad, PTL DEF Spec

\* After any sequence of calls, failed and successful, on any directories,
\* weights_ is empty or one whole model with each layer on the device of the
\* one partition that lists it. (generator.cc:392-431)
THEOREM LoadedWeightsAreWhole == Spec => []WeightsAreWhole
<1>1. LoadInv => WeightsAreWhole
  BY DEF LoadInv
<1> QED
  BY <1>1, LoadingInvariant, PTL

\* load_model() returns OK only when weights, tokenizer, devices and caches
\* belong to the directory it was called with, the configuration is one that
\* load_json() accepts, and every field that the directory's config.json settles
\* has the value of that file, whatever earlier calls left behind. A field that
\* the file leaves open is not among them. (generator.cc:392-431,
\* qwen3_config.cc:12-208)
THEOREM LoadedIsCoherent == Spec => []OkMeansCoherent
<1>1. LoadInv => OkMeansCoherent
  BY DEF LoadInv
<1> QED
  BY <1>1, LoadingInvariant, PTL

-----------------------------------------------------------------------------
(* The bytes planned.                                                      *)

\* What is planned for each device. Names of the model are not layers.
SharedNames(c) ==
  {Model("norm"), Model("lm_head")} \cup IF c.mtp > 0 THEN {Model("mtp")} ELSE {}
DeviceNames(d, c, N, k) ==
  {n \in Tensors(d) : n.layer \in Owned(c.layers, N, k - 1)}
  \cup (IF k = 1 THEN {Model("embed")} \cap Tensors(d) ELSE {})
  \cup (IF k = N THEN SharedNames(c) \cap Tensors(d) ELSE {})
ModelNames(d, c) ==
  {n \in Tensors(d) :
     \/ n.layer \in 0 .. c.layers - 1
     \/ n.part \in {"embed", "norm", "lm_head"}
     \/ n.part = "mtp" /\ c.mtp > 0}
ByteSizes(d) == [n \in Tensors(d) |-> tensor_bytes(d, n)]

LEMMA TensorBytesAreNat ==
  ASSUME NEW d, IsDirectory(d), OpenModel(d), NEW name \in Tensors(d)
  PROVE  tensor_bytes(d, name) \in Nat
<1> DEFINE s == IF d.indexed = "yes" THEN d.weight_map[name] ELSE "model"
           sh == d.shards[s]
           e == sh.entries[name]
<1>1. s \in DOMAIN d.shards
  BY DEF IsDirectory, FilesOf, Tensors, Range
<1>2. name \in DOMAIN sh.entries /\ ShardParses(sh)
  BY DEF OpenModel, Tensors
<1>3. IsShard(sh)
  BY <1>1 DEF IsDirectory
<1>4. InfoOf(d, name) = e
  BY DEF InfoOf
<1> HIDE DEF sh
<1>5. e.begin \in Nat /\ e.end \in Nat
  BY <1>2, <1>3 DEF IsShard
<1>6. e.begin <= e.end
  BY <1>2 DEF ShardParses, EntryIsValid
<1> HIDE DEF e
<1>7. e.end - e.begin \in Nat
  BY <1>5, <1>6
<1> QED BY <1>4, <1>7 DEF tensor_bytes

LEMMA SizesFacts ==
  ASSUME NEW d, IsDirectory(d), OpenModel(d), NEW S \in SUBSET Tensors(d)
  PROVE  /\ IsFiniteSet(S) /\ \A n \in S : ByteSizes(d)[n] \in Nat
         /\ BytesOf(d, S) = SumFunctionOnSet(ByteSizes(d), S)
         /\ BytesOf(d, S) \in Nat
<1>1. IsFiniteSet(S)
  BY FS_Subset DEF IsDirectory
<1>2. \A n \in S : ByteSizes(d)[n] = tensor_bytes(d, n) /\ ByteSizes(d)[n] \in Nat
  BY TensorBytesAreNat DEF ByteSizes
<1> DEFINE g == [n \in S |-> tensor_bytes(d, n)]
<1>3. BytesOf(d, S) = SumFunctionOnSet(g, S)
  BY DEF BytesOf, SumFunction
<1>4. \A n \in S : ByteSizes(d)[n] \in Int /\ ByteSizes(d)[n] = g[n]
  BY <1>2
<1> HIDE DEF g
<1>5. SumFunctionOnSet(ByteSizes(d), S) = SumFunctionOnSet(g, S)
  BY <1>1, <1>4, SumOfSame
<1>6. SumFunctionOnSet(ByteSizes(d), S) \in Nat
  BY <1>1, <1>2, SumIsNat
<1> QED BY <1>1, <1>2, <1>3, <1>5, <1>6

\* A tensor that is not there counts nothing.
LEMMA BytesOfOne ==
  ASSUME NEW d, IsDirectory(d), OpenModel(d), NEW name
  PROVE  tensor_bytes(d, name) = SumFunctionOnSet(ByteSizes(d), {name} \cap Tensors(d))
<1>1. CASE name \in Tensors(d)
  <2>1. {name} \cap Tensors(d) = {} \cup {name} /\ name \notin {}
    BY <1>1
  <2>2. ByteSizes(d)[name] = tensor_bytes(d, name) /\ ByteSizes(d)[name] \in Nat
    BY <1>1, TensorBytesAreNat DEF ByteSizes
  <2>3. SumFunctionOnSet(ByteSizes(d), {} \cup {name})
          = ByteSizes(d)[name] + SumFunctionOnSet(ByteSizes(d), {})
    BY <2>1, <2>2, FS_EmptySet, SumAdd
  <2>4. SumFunctionOnSet(ByteSizes(d), {}) = 0
    BY SumOfNone
  <2>5. SumFunctionOnSet(ByteSizes(d), {} \cup {name}) = ByteSizes(d)[name]
    BY <2>2, <2>3, <2>4
  <2> QED BY <2>1, <2>2, <2>5
<1>2. CASE name \notin Tensors(d)
  <2>1. {name} \cap Tensors(d) = {}
    BY <1>2
  <2> QED BY <1>2, <2>1, SumOfNone DEF tensor_bytes
<1> QED BY <1>1, <1>2

LEMMA BytesOfBoth ==
  ASSUME NEW d, IsDirectory(d), OpenModel(d),
         NEW S \in SUBSET Tensors(d), NEW U \in SUBSET Tensors(d), S \cap U = {}
  PROVE  SumFunctionOnSet(ByteSizes(d), S \cup U)
           = SumFunctionOnSet(ByteSizes(d), S) + SumFunctionOnSet(ByteSizes(d), U)
<1>1. IsFiniteSet(S) /\ IsFiniteSet(U) /\ \A n \in S \cup U : ByteSizes(d)[n] \in Int
  BY SizesFacts
<1> QED BY <1>1, SumUnion

LEMMA ModelNamesDiffer ==
  /\ \A part : Model(part).layer = -1 /\ Model(part).part = part
  /\ \A p, q : Model(p) = Model(q) => p = q
  /\ \A l, p : Of(l, p).layer = l /\ Of(l, p).part = p
BY DEF Model, Of

LEMMA SharedBytes ==
  ASSUME NEW d, IsDirectory(d), OpenModel(d), NEW c, c.mtp \in Nat
  PROVE  tensor_bytes(d, Model("norm")) + tensor_bytes(d, Model("lm_head"))
           + mtp_bytes(d, c.mtp)
         = SumFunctionOnSet(ByteSizes(d), SharedNames(c) \cap Tensors(d))
<1> DEFINE T == Tensors(d)
           A == {Model("norm")} \cap T
           B == {Model("lm_head")} \cap T
           C == {Model("mtp")} \cap T
           Sum(S) == SumFunctionOnSet(ByteSizes(d), S)
<1>1. /\ A \in SUBSET T /\ B \in SUBSET T /\ C \in SUBSET T /\ A \cup B \in SUBSET T
      /\ A \cap B = {} /\ (A \cup B) \cap C = {}
  BY ModelNamesDiffer
<1>2. Sum(A \cup B) = Sum(A) + Sum(B) /\ Sum((A \cup B) \cup C) = Sum(A \cup B) + Sum(C)
  BY <1>1, BytesOfBoth
<1>3. /\ tensor_bytes(d, Model("norm")) = Sum(A)
      /\ tensor_bytes(d, Model("lm_head")) = Sum(B)
      /\ tensor_bytes(d, Model("mtp")) = Sum(C)
  BY BytesOfOne
<1>4. Sum(A) \in Int /\ Sum(B) \in Int
  BY <1>1, SizesFacts
<1>5. SharedNames(c) \cap T = IF c.mtp > 0 THEN (A \cup B) \cup C ELSE A \cup B
  BY DEF SharedNames
<1>6. mtp_bytes(d, c.mtp) = IF c.mtp > 0 THEN tensor_bytes(d, Model("mtp")) ELSE 0
  BY DEF mtp_bytes
<1> HIDE DEF A, B, C
<1>7. CASE c.mtp > 0
  <2>1. SharedNames(c) \cap T = (A \cup B) \cup C
    BY <1>5, <1>7
  <2> QED BY <1>2, <1>3, <1>6, <1>7, <2>1
<1>8. CASE ~(c.mtp > 0)
  <2>1. SharedNames(c) \cap T = A \cup B
    BY <1>5, <1>8
  <2>2. mtp_bytes(d, c.mtp) = 0
    BY <1>6, <1>8
  <2> HIDE DEF Sum
  <2>3. Sum(A) + Sum(B) + 0 = Sum(A \cup B)
    BY <1>2, <1>4
  <2> QED BY <1>3, <2>1, <2>2, <2>3 DEF Sum
<1> QED BY <1>7, <1>8

\* What plan_distributed() counts for device k is what lies in its files.
LEMMA PartitionBytes ==
  ASSUME NEW d, IsDirectory(d), OpenModel(d), NEW c, c.mtp \in Nat,
         c.layers \in Nat \ {0}, NEW N \in Nat \ {0}, NEW k \in 1 .. N
  PROVE  /\ DeviceNames(d, c, N, k) \in SUBSET Tensors(d)
         /\ BytesOf(d, {n \in Tensors(d) : n.layer \in Owned(c.layers, N, k - 1)})
              + (IF k - 1 = 0 THEN tensor_bytes(d, Model("embed")) ELSE 0)
              + (IF k - 1 = N - 1
                 THEN tensor_bytes(d, Model("norm")) + tensor_bytes(d, Model("lm_head"))
                      + mtp_bytes(d, c.mtp)
                 ELSE 0)
            = SumFunctionOnSet(ByteSizes(d), DeviceNames(d, c, N, k))
<1> DEFINE T == Tensors(d)
           A == {n \in T : n.layer \in Owned(c.layers, N, k - 1)}
           B == IF k = 1 THEN {Model("embed")} \cap T ELSE {}
           C == IF k = N THEN SharedNames(c) \cap T ELSE {}
           a == BytesOf(d, A)
           b == IF k - 1 = 0 THEN tensor_bytes(d, Model("embed")) ELSE 0
           e == IF k - 1 = N - 1
                THEN tensor_bytes(d, Model("norm")) + tensor_bytes(d, Model("lm_head"))
                     + mtp_bytes(d, c.mtp)
                ELSE 0
<1>1. DeviceNames(d, c, N, k) = (A \cup B) \cup C
  BY DEF DeviceNames
<1>2. \A l \in Owned(c.layers, N, k - 1) : l # -1
  <2>1. c.layers * (k - 1) \in Nat
    BY SMT
  <2>2. 0 <= (c.layers * (k - 1)) \div N
    <3>1. N * 0 <= c.layers * (k - 1)
      BY <2>1
    <3> QED BY <2>1, <3>1, DivAtLeast
  <2>3. (c.layers * (k - 1)) \div N \in Int /\ (c.layers * (k - 1 + 1)) \div N \in Int
    BY DivBounds
  <2> QED BY <2>2, <2>3 DEF Owned, first_layer, last_layer
<1>3. \A n \in A : n.layer # -1
  BY <1>2
<1>4. \A n \in SharedNames(c) : n.layer = -1 /\ n # Model("embed")
  BY ModelNamesDiffer DEF SharedNames
<1>5. /\ A \in SUBSET T /\ B \in SUBSET T /\ C \in SUBSET T /\ A \cup B \in SUBSET T
  OBVIOUS
<1>6. A \cap B = {}
  BY <1>3, ModelNamesDiffer
<1>7. (A \cup B) \cap C = {}
  BY <1>3, <1>4
<1>8. a = SumFunctionOnSet(ByteSizes(d), A)
  BY <1>5, SizesFacts
<1>9. b = SumFunctionOnSet(ByteSizes(d), B)
  <2>1. CASE k = 1
    BY <2>1, BytesOfOne
  <2>2. CASE k # 1
    BY <2>2, SumOfNone
  <2> QED BY <2>1, <2>2
<1>10. e = SumFunctionOnSet(ByteSizes(d), C)
  <2>1. CASE k = N
    BY <2>1, SharedBytes
  <2>2. CASE k # N
    BY <2>2, SumOfNone
  <2> QED BY <2>1, <2>2
<1> HIDE DEF A, B, C, a, b, e
<1>11. SumFunctionOnSet(ByteSizes(d), (A \cup B) \cup C)
         = SumFunctionOnSet(ByteSizes(d), A \cup B) + SumFunctionOnSet(ByteSizes(d), C)
  BY <1>5, <1>7, BytesOfBoth
<1>12. SumFunctionOnSet(ByteSizes(d), A \cup B)
         = SumFunctionOnSet(ByteSizes(d), A) + SumFunctionOnSet(ByteSizes(d), B)
  BY <1>5, <1>6, BytesOfBoth
<1>13. a + b + e = SumFunctionOnSet(ByteSizes(d), DeviceNames(d, c, N, k))
  BY <1>1, <1>8, <1>9, <1>10, <1>11, <1>12
<1>14. DeviceNames(d, c, N, k) \in SUBSET Tensors(d)
  BY <1>1, <1>5
<1> QED BY <1>13, <1>14 DEF A, a, b, e

\* No tensor is planned for two devices, and none of the model for no device.
LEMMA NamesOnce ==
  ASSUME NEW d, IsDirectory(d), NEW c, c.layers \in Nat \ {0}, c.mtp \in Nat,
         NEW N \in Nat \ {0}
  PROVE  /\ UNION {DeviceNames(d, c, N, k) : k \in 1 .. N} = ModelNames(d, c)
         /\ \A j, k \in 1 .. N :
              j # k => DeviceNames(d, c, N, j) \cap DeviceNames(d, c, N, k) = {}
<1> DEFINE L == c.layers
<1>0. \A n \in Tensors(d) : IsName(n)
  BY DEF IsDirectory
<1>1. \A l \in 0 .. L - 1 : \E i \in 0 .. N - 1 :
        l \in Owned(L, N, i) /\ \A j \in 0 .. N - 1 : l \in Owned(L, N, j) => j = i
  BY LayersOwnedOnce DEF EachLayerOwnedOnce, LayerNumbers, DeviceNumbers
<1>2. \A i \in 0 .. N - 1 : Owned(L, N, i) \subseteq 0 .. L - 1
  <2> SUFFICES ASSUME NEW i \in 0 .. N - 1, NEW l \in Owned(L, N, i)
               PROVE  l \in 0 .. L - 1
    OBVIOUS
  <2> DEFINE a == (L * i) \div N
             b == (L * (i + 1)) \div N
  <2>1. L * i \in Int /\ L * (i + 1) \in Int
    OBVIOUS
  <2>2. a \in Int /\ b \in Int
    BY <2>1, DivBounds
  <2>3. l \in a .. b - 1
    BY DEF Owned, first_layer, last_layer
  <2>4. 0 <= a
    <3>1. N * 0 <= L * i
      BY SMT
    <3> QED BY <2>1, <3>1, DivAtLeast
  <2>5. ~(L + 1 <= b)
    <3>1. N * (L + 1) = N * L + N /\ N * L = L * N /\ L * N \in Int
      OBVIOUS
    <3>2. L * (i + 1) <= L * N
      <4>1. i + 1 <= N /\ i + 1 \in Int
        OBVIOUS
      <4> QED BY <4>1, Times
    <3>3. ~(N * (L + 1) <= L * (i + 1))
      BY <2>1, <3>1, <3>2
    <3> QED BY <2>1, <3>3, NextAtMostDiv
  <2> HIDE DEF a, b
  <2> QED BY <2>2, <2>3, <2>4, <2>5
<1>3. \A k \in 1 .. N : k - 1 \in 0 .. N - 1
  OBVIOUS
<1>4. \A n \in SharedNames(c) : n.layer = -1
  BY ModelNamesDiffer DEF SharedNames
<1>n. \A n \in SharedNames(c) : n # Model("embed")
  BY ModelNamesDiffer DEF SharedNames
<1>p. \A n \in SharedNames(c) :
        n.part \in {"norm", "lm_head"} \/ (n.part = "mtp" /\ c.mtp > 0)
  BY ModelNamesDiffer DEF SharedNames
<1>m. \A k \in 1 .. N : \A n : n \in DeviceNames(d, c, N, k) <=>
        /\ n \in Tensors(d)
        /\ \/ n.layer \in Owned(L, N, k - 1)
           \/ k = 1 /\ n = Model("embed")
           \/ k = N /\ n \in SharedNames(c)
  BY DEF DeviceNames
<1>e. Model("embed").layer = -1 /\ Model("embed").part = "embed"
  BY ModelNamesDiffer
<1>5. ASSUME NEW j \in 1 .. N, NEW k \in 1 .. N, NEW n,
             n \in DeviceNames(d, c, N, j), n \in DeviceNames(d, c, N, k)
      PROVE  j = k
  <2>j. \/ n.layer \in Owned(L, N, j - 1)
        \/ j = 1 /\ n = Model("embed")
        \/ j = N /\ n \in SharedNames(c)
    BY <1>5, <1>m
  <2>k. \/ n.layer \in Owned(L, N, k - 1)
        \/ k = 1 /\ n = Model("embed")
        \/ k = N /\ n \in SharedNames(c)
    BY <1>5, <1>m
  <2> HIDE DEF L
  <2>1. CASE n.layer \in Owned(L, N, j - 1)
    <3>1. n.layer \in 0 .. L - 1
      BY <1>2, <1>3, <2>1
    <3>2. n.layer # -1
      BY <3>1
    <3>3. n.layer \in Owned(L, N, k - 1)
      BY <1>4, <1>e, <2>k, <3>2
    <3>4. j - 1 = k - 1
      BY <1>1, <1>3, <2>1, <3>1, <3>3
    <3> QED BY <3>4
  <2>2. CASE n.layer \notin Owned(L, N, j - 1)
    <3>1. n.layer = -1
      BY <1>4, <1>e, <2>j, <2>2
    <3>2. n.layer \notin Owned(L, N, k - 1)
      BY <1>2, <1>3, <3>1
    <3> QED BY <1>n, <2>j, <2>k, <2>2, <3>2
  <2> QED BY <2>1, <2>2
<1>6. ASSUME NEW k \in 1 .. N, NEW n \in DeviceNames(d, c, N, k)
      PROVE  n \in ModelNames(d, c)
  <2>1. n \in Tensors(d)
    BY DEF DeviceNames
  <2>2. CASE n.layer \in Owned(L, N, k - 1)
    BY <1>2, <1>3, <2>1, <2>2 DEF ModelNames
  <2>3. CASE n = Model("embed")
    BY <1>e, <2>1, <2>3 DEF ModelNames
  <2>4. CASE n \in SharedNames(c)
    BY <1>p, <2>1, <2>4 DEF ModelNames
  <2> QED BY <1>m, <2>2, <2>3, <2>4
<1>7. ASSUME NEW n \in ModelNames(d, c)
      PROVE  \E k \in 1 .. N : n \in DeviceNames(d, c, N, k)
  <2>1. n \in Tensors(d) /\ IsName(n)
    BY <1>0 DEF ModelNames
  <2>2. CASE n.layer \in 0 .. L - 1
    <3>1. PICK i \in 0 .. N - 1 : n.layer \in Owned(L, N, i)
      BY <1>1, <2>2
    <3>2. i + 1 \in 1 .. N /\ (i + 1) - 1 = i
      OBVIOUS
    <3>3. n \in DeviceNames(d, c, N, i + 1)
      BY <2>1, <3>1, <3>2 DEF DeviceNames
    <3> QED BY <3>2, <3>3
  <2>3. CASE n.layer \notin 0 .. L - 1
    <3>0. /\ n.part \in {"embed", "norm", "lm_head", "mtp"} /\ n = Model(n.part)
          /\ n.part = "mtp" => c.mtp > 0
      BY <2>1, <2>3 DEF ModelNames, IsName, Model
    <3>1. CASE n.part = "embed"
      <4>1. n \in DeviceNames(d, c, N, 1)
        BY <2>1, <3>0, <3>1 DEF DeviceNames
      <4> QED BY <4>1
    <3>2. CASE n.part # "embed"
      <4>1. n \in SharedNames(c)
        BY <3>0, <3>2 DEF SharedNames
      <4>2. n \in DeviceNames(d, c, N, N)
        BY <2>1, <4>1 DEF DeviceNames
      <4> QED BY <4>2
    <3> QED BY <3>1, <3>2
  <2> QED BY <2>2, <2>3
<1>8. UNION {DeviceNames(d, c, N, k) : k \in 1 .. N} = ModelNames(d, c)
  <2> HIDE DEF L
  <2> QED BY <1>6, <1>7
<1> QED BY <1>5, <1>8

LEMMA PlannedBytes ==
  ASSUME IsDirectory(D), OpenModel(D), config.layers \in Nat \ {0},
         config.mtp \in Nat, Count \in Nat \ {0}
  PROVE  /\ SumFunction([k \in DOMAIN Partitions |-> Partitions[k].weight_bytes])
              = BytesOf(D, ModelNames(D, config))
         /\ BytesOf(D, ModelNames(D, config)) \in Nat
<1> DEFINE N == Count
           W == [k \in 1 .. N |-> DeviceNames(D, config, N, k)]
           g == [k \in 1 .. N |-> Partitions[k].weight_bytes]
<1>1. DOMAIN Partitions = 1 .. N
  BY DEF Partitions
<1>2. SumFunction([k \in DOMAIN Partitions |-> Partitions[k].weight_bytes])
        = SumFunctionOnSet(g, 1 .. N)
  BY <1>1 DEF SumFunction
<1>3. \A k \in 1 .. N : /\ W[k] \in SUBSET Tensors(D)
                        /\ g[k] = SumFunctionOnSet(ByteSizes(D), W[k])
  <2> SUFFICES ASSUME NEW k \in 1 .. N
               PROVE  /\ DeviceNames(D, config, N, k) \in SUBSET Tensors(D)
                      /\ Partitions[k].weight_bytes
                           = SumFunctionOnSet(ByteSizes(D), DeviceNames(D, config, N, k))
    OBVIOUS
  <2>1. Partitions[k] = Partition(k - 1)
    BY DEF Partitions
  <2>2. Partition(k - 1).weight_bytes =
          BytesOf(D, {n \in Tensors(D) : n.layer \in Owned(config.layers, N, k - 1)})
            + (IF k - 1 = 0 THEN tensor_bytes(D, Model("embed")) ELSE 0)
            + (IF k - 1 = N - 1
               THEN tensor_bytes(D, Model("norm")) + tensor_bytes(D, Model("lm_head"))
                    + mtp_bytes(D, config.mtp)
               ELSE 0)
    BY DEF Partition
  <2> QED BY <2>1, <2>2, PartitionBytes
<1>4. \A k \in 1 .. N : IsFiniteSet(W[k]) /\ \A x \in W[k] : ByteSizes(D)[x] \in Int
  <2> SUFFICES ASSUME NEW k \in 1 .. N
               PROVE  IsFiniteSet(W[k]) /\ \A x \in W[k] : ByteSizes(D)[x] \in Int
    OBVIOUS
  <2>1. W[k] \in SUBSET Tensors(D)
    BY <1>3
  <2> HIDE DEF W
  <2>2. IsFiniteSet(W[k]) /\ \A x \in W[k] : ByteSizes(D)[x] \in Nat
    BY <2>1, SizesFacts
  <2> QED BY <2>2
<1>5. /\ UNION {W[k] : k \in 1 .. N} = ModelNames(D, config)
      /\ \A j, k \in 1 .. N : j # k => W[j] \cap W[k] = {}
  BY NamesOnce
<1> HIDE DEF W, g
<1>6. SumFunctionOnSet(g, 1 .. N)
        = SumFunctionOnSet(ByteSizes(D), UNION {W[k] : k \in 1 .. N})
  BY <1>3, <1>4, <1>5, SumOfSums
<1>7. ModelNames(D, config) \in SUBSET Tensors(D)
  BY DEF ModelNames
<1>8. /\ BytesOf(D, ModelNames(D, config))
           = SumFunctionOnSet(ByteSizes(D), ModelNames(D, config))
      /\ BytesOf(D, ModelNames(D, config)) \in Nat
  BY <1>7, SizesFacts
<1> QED BY <1>2, <1>5, <1>6, <1>8

-----------------------------------------------------------------------------
(* The types.                                                              *)

LEMMA UpToBadFacts ==
  ASSUME NEW S, NEW bad, NEW s \in Seq(S)
  PROVE  /\ UpToBad(s, bad) \in Seq(S \ {bad})
         /\ UpToBad(s, bad) = s <=> \A i \in 1 .. Len(s) : s[i] # bad
<1> DEFINE P(k) == /\ \A i \in 1 .. k : s[i] # bad
                   /\ k < Len(s) => s[k + 1] = bad
           n == CHOOSE k \in 0 .. Len(s) : P(k)
           B == {i \in 0 .. Len(s) - 1 : s[i + 1] = bad}
<1>1. Len(s) \in Nat /\ \A i \in 1 .. Len(s) : s[i] \in S
  BY LenProperties, ElementOfSeq
<1>2. \E k \in 0 .. Len(s) : P(k)
  <2>1. CASE B = {}
    <3>1. \A i \in 1 .. Len(s) : s[i] # bad
      <4> SUFFICES ASSUME NEW i \in 1 .. Len(s), s[i] = bad PROVE FALSE
        OBVIOUS
      <4>1. i - 1 \in 0 .. Len(s) - 1 /\ (i - 1) + 1 = i
        BY <1>1
      <4> QED BY <2>1, <4>1
    <3>2. Len(s) \in 0 .. Len(s) /\ P(Len(s))
      BY <1>1, <3>1
    <3> QED BY <3>2
  <2>2. CASE B # {}
    <3>1. PICK m \in B : \A i \in B : m <= i
      <4>1. B \in SUBSET Nat
        BY <1>1
      <4> HIDE DEF B
      <4> QED BY <2>2, <4>1, LeastNumber
    <3>2. m \in 0 .. Len(s) - 1 /\ s[m + 1] = bad
      BY <3>1
    <3>3. \A i \in 1 .. m : s[i] # bad
      <4> SUFFICES ASSUME NEW i \in 1 .. m, s[i] = bad PROVE FALSE
        OBVIOUS
      <4>1. i - 1 \in 0 .. Len(s) - 1 /\ (i - 1) + 1 = i /\ ~(m <= i - 1)
        BY <1>1, <3>2
      <4>2. i - 1 \in B
        BY <4>1
      <4> QED BY <3>1, <4>1, <4>2
    <3>4. m \in 0 .. Len(s) /\ P(m)
      BY <1>1, <3>2, <3>3
    <3> QED BY <3>4
  <2> QED BY <2>1, <2>2
<1>3. n \in 0 .. Len(s) /\ P(n)
  BY <1>2
<1>4. UpToBad(s, bad) = SubSeq(s, 1, n)
  BY DEF UpToBad
<1> HIDE DEF n, P
<1>5. n \in Nat /\ n <= Len(s)
  BY <1>1, <1>3
<1>6. \A i \in 1 .. n : s[i] \in S \ {bad}
  BY <1>1, <1>3, <1>5 DEF P
<1>7. SubSeq(s, 1, n) \in Seq(S \ {bad}) /\ Len(SubSeq(s, 1, n)) = n
  <2>1. n \in Int /\ 1 \in Int /\ (IF 1 <= n THEN n - 1 + 1 ELSE 0) = n
    BY <1>5
  <2> DEFINE T == S \ {bad}
             t == SubSeq(s, 1, n)
  <2>2. \A i \in 1 .. n : s[i] \in T
    BY <1>6
  <2> HIDE DEF T
  <2>3. t \in Seq(T) /\ Len(t) = IF 1 <= n THEN n - 1 + 1 ELSE 0
    BY <2>1, <2>2, SubSeqProperties
  <2> QED BY <2>1, <2>3 DEF T
<1>8. ASSUME UpToBad(s, bad) = s
      PROVE  \A i \in 1 .. Len(s) : s[i] # bad
  <2>1. n = Len(s)
    BY <1>4, <1>7, <1>8
  <2> QED BY <1>6, <2>1
<1>9. ASSUME \A i \in 1 .. Len(s) : s[i] # bad
      PROVE  UpToBad(s, bad) = s
  <2>1. ~(n < Len(s))
    <3>1. n < Len(s) => n + 1 \in 1 .. Len(s)
      BY <1>1, <1>5
    <3> QED BY <1>3, <1>9, <3>1 DEF P
  <2>2. n = Len(s)
    BY <1>1, <1>5, <2>1
  <2> QED BY <1>4, <2>2, SubSeqFull
<1> QED BY <1>4, <1>7, <1>8, <1>9

LEMMA ScheduleFacts ==
  ASSUME NEW layers \in Int, NEW interval
  PROVE  /\ Schedule(layers, interval) \in Seq({"full", "linear"})
         /\ layers > 0 => Len(Schedule(layers, interval)) = layers
<1> DEFINE s == Schedule(layers, interval)
           T == {"full", "linear"}
           n == IF layers > 0 THEN layers ELSE 0
<1>1. n \in Nat /\ 1 .. n = 1 .. layers
  OBVIOUS
<1>2. s \in [1 .. layers -> T]
  BY DEF Schedule, KindAt
<1> HIDE DEF s, T
<1>3. s \in [1 .. n -> T]
  BY <1>1, <1>2
<1> HIDE DEF n
<1>4. s \in Seq(T)
  BY <1>1, <1>3, SeqDef
<1>5. DOMAIN s = 1 .. Len(s) /\ Len(s) \in Nat
  BY <1>4, LenProperties
<1>6. 1 .. Len(s) = 1 .. n
  BY <1>3, <1>5
<1>7. Len(s) = n
  <2>1. ~(n < Len(s))
    <3>1. n < Len(s) => Len(s) \in 1 .. Len(s) /\ Len(s) \notin 1 .. n
      BY <1>1, <1>5
    <3> QED BY <1>6, <3>1
  <2>2. ~(Len(s) < n)
    <3>1. Len(s) < n => n \in 1 .. n /\ n \notin 1 .. Len(s)
      BY <1>1, <1>5
    <3> QED BY <1>6, <3>1
  <2>3. n \in Nat /\ Len(s) \in Nat
    BY <1>1, <1>5
  <2> DEFINE m == Len(s)
  <2> HIDE DEF m
  <2>4. m \in Nat /\ ~(n < m) /\ ~(m < n)
    BY <2>1, <2>2, <2>3 DEF m
  <2>5. m = n
    BY <2>3, <2>4
  <2> QED BY <2>5 DEF m
<1> QED BY <1>4, <1>7 DEF s, T, n

\* The types of the fields.
FieldTypes(c) ==
  /\ IsRecord(c) /\ c.interval \in Int /\ c.mtp \in Nat
  /\ c.eos \in Seq(Nat) /\ c.layer_types \in Seq({"full", "linear"})

LEMMA ReadTypes ==
  ASSUME NEW old, NEW f, FieldTypes(old), IsConfig(f)
  PROVE  /\ LayersRead(old, f) \in Int /\ IntervalRead(old, f) \in Int
         /\ MtpRead(f) \in Int
         /\ EosRead(f) \in Seq(Nat \cup {BadId})
         /\ TypesRead(old, f) \in Seq({"full", "linear", "unknown"})
         /\ UpToBad(EosRead(f), BadId) \in Seq(Nat)
         /\ UpToBad(TypesRead(old, f), "unknown") \in Seq({"full", "linear"})
<1>1. LayersRead(old, f) \in Int /\ IntervalRead(old, f) \in Int
  BY KeyOrOld DEF LayersRead, IntervalRead, FieldTypes, IsRecord, IsConfig
<1>2. MtpRead(f) \in Int
  BY KeyOrOld DEF MtpRead, IsConfig
<1>3. EosRead(f) \in Seq(Nat \cup {BadId})
  <2> DEFINE V == Seq(Nat \cup {BadId})
  <2>1. << >> \in V /\ IsKey(f.eos, V)
    BY EmptySeq DEF IsConfig
  <2> HIDE DEF V
  <2>2. Field(f.eos, << >>) \in V
    BY <2>1, KeyOrOld
  <2> QED BY <2>2 DEF EosRead, V
<1>4. TypesRead(old, f) \in Seq({"full", "linear", "unknown"})
  <2> DEFINE U == {"full", "linear", "unknown"}
             V == Seq(U)
             l == LayersRead(old, f)
             i == IntervalRead(old, f)
  <2>1. IsKey(f.layer_types, V)
    BY DEF IsConfig
  <2>2. Schedule(l, i) \in V
    <3>1. Schedule(l, i) \in Seq({"full", "linear"})
      BY <1>1, ScheduleFacts
    <3>2. {"full", "linear"} \subseteq U
      OBVIOUS
    <3> HIDE DEF U
    <3>3. \A A, B, s : s \in Seq(A) /\ A \subseteq B => s \in Seq(B)
      BY SeqDef
    <3> QED BY <3>1, <3>2, <3>3
  <2>3. << >> \in V
    BY EmptySeq
  <2> HIDE DEF V
  <2>4. f.layer_types # << >> => f.layer_types[1] \in V
    <3>1. f.layer_types # << >> => Field(f.layer_types, << >>) \in V
      BY <2>1, <2>3, KeyOrOld
    <3> QED BY <3>1 DEF Field
  <2>5. TypesRead(old, f) \in V
    BY <2>2, <2>3, <2>4 DEF TypesRead, LayerTypes
  <2> QED BY <2>5 DEF V
<1>5. UpToBad(EosRead(f), BadId) \in Seq(Nat)
  <2> DEFINE A == Nat \cup {BadId}
  <2>1. A \ {BadId} = Nat
    BY DEF BadId
  <2>2. EosRead(f) \in Seq(A)
    BY <1>3
  <2> HIDE DEF A
  <2>3. UpToBad(EosRead(f), BadId) \in Seq(A \ {BadId})
    BY <2>2, UpToBadFacts
  <2> QED BY <2>1, <2>3
<1>6. UpToBad(TypesRead(old, f), "unknown") \in Seq({"full", "linear"})
  <2> DEFINE A == {"full", "linear", "unknown"}
  <2>1. A \ {"unknown"} = {"full", "linear"}
    OBVIOUS
  <2>2. TypesRead(old, f) \in Seq(A)
    BY <1>4
  <2> HIDE DEF A
  <2>3. UpToBad(TypesRead(old, f), "unknown") \in Seq(A \ {"unknown"})
    BY <2>2, UpToBadFacts
  <2> QED BY <2>1, <2>3
<1> QED BY <1>1, <1>2, <1>3, <1>4, <1>5, <1>6

\* Whatever load_json() rejects, the fields keep their types.
LEMMA LoadJsonTypes ==
  ASSUME NEW old, NEW f, FieldTypes(old), IsConfig(f)
  PROVE  FieldTypes(LoadJson(old, f).config)
<1> DEFINE n == Numbers(old, f)
           e == Ended(old, f)
           w == WithTypes(old, f, << >>)
           c == Typed(old, f)
           end == IF /\ UpToBad(TypesRead(old, f), "unknown") = TypesRead(old, f)
                     /\ ValidConfig(c)
                  THEN "ok" ELSE "failed"
<1>1. IsRecord(n) /\ IsRecord(e) /\ IsRecord(w) /\ IsRecord(c)
  BY RecordsRead DEF FieldTypes
<1>2. /\ n.interval = IntervalRead(old, f) /\ n.mtp = old.mtp /\ n.eos = old.eos
      /\ n.layer_types = old.layer_types
  BY RecordFields DEF Numbers
<1>3. /\ e.interval = IntervalRead(old, f) /\ e.mtp = MtpRead(f)
      /\ e.eos = UpToBad(EosRead(f), BadId) /\ e.layer_types = old.layer_types
  BY RecordFields DEF Ended
<1>4. /\ w.interval = IntervalRead(old, f) /\ w.mtp = MtpRead(f)
      /\ w.eos = UpToBad(EosRead(f), BadId) /\ w.layer_types = << >>
  BY RecordFields DEF WithTypes
<1>5. /\ c.interval = IntervalRead(old, f) /\ c.mtp = MtpRead(f)
      /\ c.eos = UpToBad(EosRead(f), BadId)
      /\ c.layer_types = UpToBad(TypesRead(old, f), "unknown")
  BY RecordFields DEF Typed, WithTypes
<1>6. LoadJson(old, f) =
        IF ~f.readable THEN [config |-> old, end |-> "failed"]
        ELSE IF MtpRead(f) \notin 0 .. MaxInt32 THEN [config |-> n, end |-> "failed"]
        ELSE IF UpToBad(EosRead(f), BadId) # EosRead(f)
        THEN [config |-> e, end |-> "failed"]
        ELSE IF Unreserved(old, f) THEN [config |-> w, end |-> "threw"]
        ELSE [config |-> c, end |-> end]
  BY LoadJsonIs DEF FieldTypes
<1> HIDE DEF n, e, w, c, end
<1>7. FieldTypes(n)
  BY <1>1, <1>2, ReadTypes DEF FieldTypes
<1>8. MtpRead(f) \in 0 .. MaxInt32 => FieldTypes(e) /\ FieldTypes(w) /\ FieldTypes(c)
  <2>1. MtpRead(f) \in 0 .. MaxInt32 => MtpRead(f) \in Nat
    BY CheckpointAssumption
  <2>2. << >> \in Seq({"full", "linear"})
    BY EmptySeq
  <2> QED BY <1>1, <1>3, <1>4, <1>5, <2>1, <2>2, ReadTypes DEF FieldTypes
<1> QED BY <1>6, <1>7, <1>8

-----------------------------------------------------------------------------
(* How a step of a call ends: it goes on to the next stage, or the call    *)
(* ends with an error or an exception.                                     *)

Fits(devs, c) ==
  /\ \A k \in 1 .. Len(devs) : devs[k].is_gpu
  /\ c.layers > 0 /\ Len(devs) <= c.layers
TokenizerLoads(d) ==
  d.tokenizer.state = "good" /\ UpToBad(d.tokenizer.eos, BadId) = d.tokenizer.eos

Outcome(passes, stage) ==
  /\ call'.count = call.count /\ call'.dir = call.dir /\ call'.faulty = call.faulty
  /\ directory' = directory /\ options' = options
  /\ IF passes THEN call'.pc = stage /\ call'.status = call.status
               ELSE call'.pc = "idle" /\ call'.status \in {"failed", "threw"}
Kept == config' = config /\ devices' = devices
SameLayer(passes) == passes => call'.next_layer = call.next_layer

LEMMA FailOutcome ==
  ASSUME CallShape, Fail \/ Throw, directory' = directory, options' = options,
         NEW stage
  PROVE  Outcome(FALSE, stage)
BY DEF CallShape, Fail, Throw, End, Outcome

LEMMA GotoOutcome ==
  ASSUME CallShape, NEW stage, Goto(stage), directory' = directory, options' = options
  PROVE  Outcome(TRUE, stage) /\ SameLayer(TRUE)
BY DEF CallShape, Goto, Outcome, SameLayer

LEMMA EndsOrGoes ==
  ASSUME CallShape, NEW passes \in BOOLEAN, NEW stage,
         IF passes THEN Goto(stage) ELSE Fail \/ Throw,
         directory' = directory, options' = options
  PROVE  Outcome(passes, stage) /\ SameLayer(passes)
<1>1. CASE passes
  BY <1>1, GotoOutcome DEF Outcome, SameLayer
<1>2. CASE ~passes
  BY <1>2, FailOutcome DEF Outcome, SameLayer
<1> QED BY <1>1, <1>2

LEMMA SelectDevicesOutcome ==
  ASSUME CallShape, SelectDevices
  PROVE  /\ Outcome(Selected(options) # << >>, "config")
         /\ SameLayer(Selected(options) # << >>)
         /\ devices' = Selected(options) /\ config' = config
BY EndsOrGoes DEF SelectDevices

LEMMA ReadConfigOutcome ==
  ASSUME CallShape, ReadConfig, IsRecord(config), IsConfig(D.config)
  PROVE  /\ Outcome(LoadJson(config, D.config).end = "ok", "open")
         /\ SameLayer(LoadJson(config, D.config).end = "ok")
         /\ config' = LoadJson(config, D.config).config /\ devices' = devices
<1> DEFINE read == LoadJson(config, D.config)
<1>1. /\ config' = read.config /\ devices' = devices
      /\ directory' = directory /\ options' = options
      /\ IF read.end = "ok" THEN Goto("open") ELSE End(read.end)
  BY DEF ReadConfig
<1>2. read.end \in {"ok", "failed", "threw"}
  BY LoadJsonFacts
<1> HIDE DEF read
<1>3. IF read.end = "ok" THEN Goto("open") ELSE Fail \/ Throw
  BY <1>1, <1>2 DEF Fail, Throw
<1> DEFINE passes == read.end = "ok"
<1>4. passes \in BOOLEAN /\ IF passes THEN Goto("open") ELSE Fail \/ Throw
  BY <1>3
<1> HIDE DEF passes
<1>5. Outcome(passes, "open") /\ SameLayer(passes)
  BY <1>1, <1>4, EndsOrGoes
<1> QED BY <1>1, <1>5 DEF read, passes

\* The three ways in which open_model() ends exclude each other.
LEMMA OpenEnds ==
  ASSUME NEW d, OpenModel(d)
  PROVE  ~OpenFails(d) /\ ~OpenThrows(d)
<1>1. \A s \in FilesOf(d) : ShardParses(d.shards[s])
  BY DEF OpenModel, FilesOf, Range
<1>2. \A s : ShardParses(s) => ~ShardFails(s) /\ ~ShardThrows(s)
  BY DEF ShardParses, ShardFails, ShardThrows, EntryIsValid
<1>3. d.indexed # "bad"
      /\ (d.indexed = "yes" => \A name \in DOMAIN d.weight_map :
            name \in DOMAIN d.shards[d.weight_map[name]].entries)
  BY DEF OpenModel
<1> QED BY <1>1, <1>2, <1>3 DEF OpenFails, OpenThrows

LEMMA OpenLoaderOutcome ==
  ASSUME CallShape, OpenLoader
  PROVE  Outcome(OpenModel(D), "plan") /\ SameLayer(OpenModel(D)) /\ Kept
<1>1. OpenModel(D) \in BOOLEAN
  BY DEF OpenModel
<1>2. IF OpenModel(D) THEN Goto("plan") ELSE Fail \/ Throw
  BY OpenEnds DEF OpenLoader
<1> QED BY <1>1, <1>2, EndsOrGoes DEF OpenLoader, Kept, generator

LEMMA PlanDistributedOutcome ==
  ASSUME CallShape, PlanDistributed
  PROVE  /\ Outcome(Fits(devices, config), "layers")
         /\ SameLayer(Fits(devices, config)) /\ Kept
<1>1. Kept /\ directory' = directory /\ options' = options
  BY DEF PlanDistributed, Kept, generator
<1>2. CASE Fits(devices, config)
  <2> DEFINE r == [NoWeights EXCEPT !.from = directory, !.partitions = Partitions]
  <2>1. call' = [call EXCEPT !.pc = "layers", !.result = r]
    BY <1>2 DEF PlanDistributed, Fits, Count
  <2> HIDE DEF r
  <2> QED BY <1>1, <1>2, <2>1 DEF CallShape, Outcome, SameLayer
<1>3. CASE ~Fits(devices, config)
  <2>1. Fail
    BY <1>3 DEF PlanDistributed, Fits, Count
  <2> QED BY <1>1, <1>3, <2>1, FailOutcome DEF Outcome, SameLayer
<1> QED BY <1>1, <1>2, <1>3

LEMMA LoadLayerOutcome ==
  ASSUME CallShape, LoadLayer
  PROVE  /\ Outcome(LayerLoads(D, config, call.next_layer), "layers") /\ Kept
         /\ LayerLoads(D, config, call.next_layer) =>
              call'.next_layer = call.next_layer + 1
<1>1. Kept /\ directory' = directory /\ options' = options
  BY DEF LoadLayer, Kept, generator
<1>2. CASE LayerLoads(D, config, call.next_layer)
  <2> DEFINE x == [kind |-> KindFound(D, call.next_layer),
                   device |-> OwnerOf(call.next_layer), from |-> directory]
  <2>1. call' = [call EXCEPT !.next_layer = call.next_layer + 1,
                             !.result.layers = Append(@, x)]
    BY <1>2 DEF LoadLayer
  <2> HIDE DEF x
  <2> QED BY <1>1, <1>2, <2>1 DEF CallShape, Outcome, LoadLayer
<1>3. CASE ~LayerLoads(D, config, call.next_layer)
  <2>1. Fail
    BY <1>3 DEF LoadLayer
  <2> QED BY <1>1, <1>3, <2>1, FailOutcome DEF Outcome
<1> QED BY <1>1, <1>2, <1>3

AfterShared == IF options.enable_mtp THEN "mtp" ELSE "tokenizer"
LEMMA LoadSharedOutcome ==
  ASSUME CallShape, LoadShared
  PROVE  /\ Outcome(SharedLoads(D), AfterShared) /\ SameLayer(SharedLoads(D)) /\ Kept
         /\ weights' = IF SharedLoads(D) THEN WholeResult(call.result) ELSE weights
<1>1. Kept /\ directory' = directory /\ options' = options
  BY DEF LoadShared, Kept
<1>2. CASE SharedLoads(D)
  <2>1. /\ call' = [call EXCEPT !.result = NoWeights, !.pc = AfterShared]
        /\ weights' = WholeResult(call.result)
    BY <1>2 DEF LoadShared, AfterShared
  <2> QED BY <1>1, <1>2, <2>1 DEF CallShape, Outcome, SameLayer
<1>3. CASE ~SharedLoads(D)
  <2>1. Fail /\ weights' = weights
    BY <1>3 DEF LoadShared
  <2> QED BY <1>1, <1>3, <2>1, FailOutcome DEF Outcome, SameLayer
<1> QED BY <1>1, <1>2, <1>3

MtpWeights == <<[from |-> directory, device |-> devices[Count], layers |-> config.mtp]>>
LEMMA LoadMtpOutcome ==
  ASSUME CallShape, LoadMtp
  PROVE  /\ Outcome(MtpLoads(D, config), "tokenizer")
         /\ SameLayer(MtpLoads(D, config)) /\ Kept
         /\ weights' = IF MtpLoads(D, config)
                       THEN [weights EXCEPT !.mtp = MtpWeights] ELSE weights
<1>1. Kept /\ directory' = directory /\ options' = options
  BY DEF LoadMtp, Kept
<1>2. CASE MtpLoads(D, config)
  BY <1>1, <1>2, GotoOutcome DEF LoadMtp, MtpWeights, Outcome, SameLayer
<1>3. CASE ~MtpLoads(D, config)
  <2>1. Fail /\ weights' = weights
    BY <1>3 DEF LoadMtp
  <2> QED BY <1>1, <1>3, <2>1, FailOutcome DEF Outcome, SameLayer
<1> QED BY <1>1, <1>2, <1>3

LEMMA LoadTokenizerFacts ==
  ASSUME NEW d, NEW id, NEW none
  PROVE  /\ LoadTokenizer(d, id, none).bytes = TokenizerLoads(d)
         /\ LoadTokenizer(d, id, none).vocab \in {id, none}
BY DEF LoadTokenizer, TokenizerLoads

LEMMA ReadTokenizerOutcome ==
  ASSUME CallShape, ReadTokenizer
  PROVE  /\ Outcome(TokenizerLoads(D), "publish") /\ SameLayer(TokenizerLoads(D)) /\ Kept
<1>1. Kept /\ directory' = directory /\ options' = options
  BY DEF ReadTokenizer, Kept
<1>2. tokenizer'.bytes = TokenizerLoads(D) /\ TokenizerLoads(D) \in BOOLEAN
  BY LoadTokenizerFacts DEF ReadTokenizer, TokenizerLoads
<1> QED BY <1>1, <1>2, EndsOrGoes DEF ReadTokenizer

LEMMA PublishOutcome ==
  ASSUME CallShape, Publish
  PROVE  /\ call'.count = call.count /\ call'.dir = call.dir /\ call'.faulty = call.faulty
         /\ call'.pc = "idle" /\ call'.status = "ok"
         /\ directory' = directory /\ options' = options /\ Kept
BY DEF CallShape, Publish, Kept

-----------------------------------------------------------------------------
(* Types and bytes.                                                        *)

Opened == {"plan", "layers"} \cup Loaded
ValueInv ==
  /\ loaded \in BOOLEAN /\ FieldTypes(config)
  /\ devices \in Seq(Range(Machine) \cup {Cpu})
  /\ weights.from \in Directory \cup {NoDirectory} /\ weights.total \in Nat
  /\ Len(weights.mtp) <= 1
  /\ tokenizer.vocab \in Directory \cup {NoDirectory} /\ tokenizer.bytes \in BOOLEAN
  /\ caches \in [{"attention", "mtp", "deltanet"} -> Nat]
  /\ call.status \in {"none", "running", "ok", "failed", "threw"}
BytesInv ==
  /\ call.pc \in Opened => OpenModel(D)
  /\ call.pc \in Loaded => weights.total = BytesOf(D, ModelNames(D, config))
TotalInv == LoadInv /\ ValueInv /\ BytesInv /\ BytesPlannedOnce

USE DEF Opened

LEMMA ContentFacts ==
  ASSUME LoadInv, call.pc # "idle"
  PROVE  IsDirectory(D) /\ D = Content(call.dir) /\ directory \in Directory
BY DirectoryAssumption DEF LoadInv, StageInv, D

LEMMA ReadConfigTyped ==
  ASSUME TotalInv, ReadConfig
  PROVE  CallShape /\ IsRecord(config) /\ IsConfig(D.config)
BY ContentFacts
DEF TotalInv, LoadInv, ShapeInv, ValueInv, FieldTypes, ReadConfig, IsDirectory

\* weights_ after the shared tensors.
LEMMA SharedTotal ==
  ASSUME TotalInv, LoadShared, SharedLoads(D)
  PROVE  /\ weights'.from = directory /\ weights'.mtp = << >>
         /\ weights'.total = BytesOf(D, ModelNames(D, config)) /\ weights'.total \in Nat
<1> DEFINE r == call.result
           t == SumFunction([k \in DOMAIN r.partitions |-> r.partitions[k].weight_bytes])
           h == <<devices[1], devices[Count], devices[Count]>>
<1>1. weights' = [r EXCEPT !.shared = h, !.total = t]
  <2>1. weights' = WholeResult(r)
    BY LoadSharedOutcome DEF TotalInv, LoadInv, ShapeInv
  <2> QED BY <2>1 DEF WholeResult
<1>2. r.from = directory /\ r.partitions = Partitions /\ r.mtp = << >>
  BY DEF TotalInv, LoadInv, ResultInv, LayersUpTo, LoadShared
<1>3. WeightsShape(r)
  BY DEF TotalInv, LoadInv, ShapeInv
<1>4. /\ IsDirectory(D) /\ OpenModel(D) /\ config.layers \in Nat \ {0}
      /\ config.mtp \in Nat /\ Count \in Nat \ {0}
  <2>1. call.pc = "layers"
    BY DEF LoadShared
  <2> QED BY <2>1, ContentFacts
      DEF TotalInv, LoadInv, StageInv, ConfigInv, ValueInv, BytesInv, FieldTypes
<1>5. t = BytesOf(D, ModelNames(D, config)) /\ t \in Nat
  BY <1>2, <1>4, PlannedBytes
<1> HIDE DEF r, t, h
<1>6. weights' = [from |-> r.from, layers |-> r.layers, partitions |-> r.partitions,
                  shared |-> h, total |-> t, mtp |-> r.mtp]
  BY <1>1, <1>3 DEF WeightsShape
<1> QED BY <1>2, <1>5, <1>6

LEMMA WeightValues ==
  ASSUME TotalInv, [Next]_vars
  PROVE  /\ weights'.from \in Directory \cup {NoDirectory} /\ weights'.total \in Nat
         /\ Len(weights'.mtp) <= 1
<1>0. CallShape
  BY DEF TotalInv, LoadInv, ShapeInv
<1>1. CASE weights' = weights
  BY <1>1 DEF TotalInv, ValueInv
<1>2. CASE LoadShared
  <2>1. CASE SharedLoads(D)
    <3>1. Len(<< >>) = 0 /\ directory \in Directory
      BY ContentFacts, <1>2 DEF TotalInv, LoadShared
    <3> QED BY <1>2, <2>1, <3>1, SharedTotal
  <2>2. CASE ~SharedLoads(D)
    BY <1>0, <1>1, <1>2, <2>2, LoadSharedOutcome
  <2> QED BY <2>1, <2>2
<1>3. CASE LoadMtp
  <2>1. CASE MtpLoads(D, config)
    <3>1. weights' = [weights EXCEPT !.mtp = MtpWeights]
      BY <1>0, <1>3, <2>1, LoadMtpOutcome
    <3>2. WeightsShape(weights)
      BY DEF TotalInv, LoadInv, ShapeInv
    <3>3. weights'.from = weights.from /\ weights'.total = weights.total
          /\ weights'.mtp = MtpWeights
      BY <3>1, <3>2 DEF WeightsShape
    <3>4. Len(MtpWeights) = 1
      BY DEF MtpWeights
    <3> QED BY <3>3, <3>4 DEF TotalInv, ValueInv
  <2>2. CASE ~MtpLoads(D, config)
    BY <1>0, <1>1, <1>3, <2>2, LoadMtpOutcome
  <2> QED BY <2>1, <2>2
<1> QED BY <1>1, <1>2, <1>3
    DEF Next, Step, Replace, LoadModel, SelectDevices, ReadConfig, OpenLoader,
        PlanDistributed, LoadLayer, ReadTokenizer, Publish, BackendFails, vars, generator

LEMMA ConfigValues ==
  ASSUME TotalInv, [Next]_vars
  PROVE  FieldTypes(config')
<1>1. CASE config' = config
  BY <1>1 DEF TotalInv, ValueInv
<1>2. CASE ReadConfig
  <2>1. config' = LoadJson(config, D.config).config
    BY <1>2 DEF ReadConfig
  <2>2. FieldTypes(config) /\ IsConfig(D.config)
    BY <1>2, ContentFacts DEF TotalInv, ValueInv, ReadConfig, IsDirectory
  <2> QED BY <2>1, <2>2, LoadJsonTypes
<1> QED BY <1>1, <1>2
    DEF Next, Step, Replace, LoadModel, SelectDevices, OpenLoader, PlanDistributed,
        LoadLayer, LoadShared, LoadMtp, ReadTokenizer, Publish, BackendFails, vars,
        generator

LEMMA DeviceValues ==
  ASSUME TotalInv, [Next]_vars
  PROVE  devices' \in Seq(Range(Machine) \cup {Cpu})
<1>1. CASE devices' = devices
  BY <1>1 DEF TotalInv, ValueInv
<1>2. CASE SelectDevices
  BY <1>2, SelectionAssumption DEF TotalInv, LoadInv, StageInv, SelectDevices
<1> QED BY <1>1, <1>2
    DEF Next, Step, Replace, LoadModel, ReadConfig, OpenLoader, PlanDistributed,
        LoadLayer, LoadShared, LoadMtp, ReadTokenizer, Publish, BackendFails, vars,
        generator

LEMMA TokenizerValues ==
  ASSUME TotalInv, [Next]_vars
  PROVE  tokenizer'.vocab \in Directory \cup {NoDirectory} /\ tokenizer'.bytes \in BOOLEAN
<1>1. CASE tokenizer' = tokenizer
  BY <1>1 DEF TotalInv, ValueInv
<1>2. CASE ReadTokenizer
  <2>1. directory \in Directory
    BY <1>2, ContentFacts DEF TotalInv, ReadTokenizer
  <2>2. TokenizerLoads(D) \in BOOLEAN
    BY DEF TokenizerLoads
  <2> QED BY <1>2, <2>1, <2>2, LoadTokenizerFacts DEF ReadTokenizer
<1> QED BY <1>1, <1>2
    DEF Next, Step, Replace, LoadModel, SelectDevices, ReadConfig, OpenLoader,
        PlanDistributed, LoadLayer, LoadShared, LoadMtp, Publish, BackendFails, vars,
        generator

LEMMA CacheValues ==
  ASSUME TotalInv, [Next]_vars
  PROVE  /\ loaded' \in BOOLEAN
         /\ caches' \in [{"attention", "mtp", "deltanet"} -> Nat]
<1>1. CASE loaded' = loaded /\ caches' = caches
  BY <1>1 DEF TotalInv, ValueInv
<1>2. CASE Publish
  <2>1. config.layers \in Nat /\ config.mtp \in Nat
    BY <1>2 DEF TotalInv, LoadInv, ConfigInv, ValueInv, FieldTypes, Publish
  <2>2. caches' = [attention |-> config.layers, mtp |-> config.mtp,
                   deltanet |-> config.layers] /\ loaded' = TRUE
    BY <1>2 DEF Publish, CacheSizes
  <2> QED BY <2>1, <2>2
<1> QED BY <1>1, <1>2
    DEF Next, Step, Replace, LoadModel, SelectDevices, ReadConfig, OpenLoader,
        PlanDistributed, LoadLayer, LoadShared, LoadMtp, ReadTokenizer, BackendFails,
        vars, generator

LEMMA StatusValues ==
  ASSUME TotalInv, [Next]_vars
  PROVE  call'.status \in {"none", "running", "ok", "failed", "threw"}
<1>0. CallShape /\ call.status \in {"none", "running", "ok", "failed", "threw"}
  BY DEF TotalInv, LoadInv, ShapeInv, ValueInv
<1>1. CASE Replace
  BY <1>0, <1>1 DEF Replace
<1>2. CASE LoadModel
  BY <1>2 DEF LoadModel, NoCall
<1>3. CASE SelectDevices
  BY <1>0, <1>3, SelectDevicesOutcome DEF Outcome
<1>4. CASE ReadConfig
  BY <1>0, <1>4, ReadConfigTyped, ReadConfigOutcome DEF Outcome
<1>5. CASE OpenLoader
  BY <1>0, <1>5, OpenLoaderOutcome DEF Outcome
<1>6. CASE PlanDistributed
  BY <1>0, <1>6, PlanDistributedOutcome DEF Outcome
<1>7. CASE LoadLayer
  BY <1>0, <1>7, LoadLayerOutcome DEF Outcome
<1>8. CASE LoadShared
  BY <1>0, <1>8, LoadSharedOutcome DEF Outcome
<1>9. CASE LoadMtp
  BY <1>0, <1>9, LoadMtpOutcome DEF Outcome
<1>10. CASE ReadTokenizer
  BY <1>0, <1>10, ReadTokenizerOutcome DEF Outcome
<1>11. CASE Publish
  BY <1>0, <1>11, PublishOutcome
<1>12. CASE BackendFails
  BY <1>0, <1>12 DEF CallShape, BackendFails
<1>13. CASE UNCHANGED vars
  BY <1>0, <1>13 DEF vars
<1> QED BY <1>1, <1>2, <1>3, <1>4, <1>5, <1>6, <1>7, <1>8, <1>9, <1>10, <1>11,
           <1>12, <1>13 DEF Next, Step

LEMMA SameBytes ==
  ASSUME directory' = directory, config' = config
  PROVE  /\ D' = D /\ (OpenModel(D))' = OpenModel(D)
         /\ (BytesOf(D, ModelNames(D, config)))' = BytesOf(D, ModelNames(D, config))
<1>1. D' = D
  BY DEF D
<1> QED BY <1>1

\* What a call has opened stays open, and its bytes stay what they are.
LEMMA NextBytes ==
  ASSUME TotalInv, [Next]_vars
  PROVE  BytesInv'
<1>0. CallShape /\ BytesInv
  BY DEF TotalInv, LoadInv, ShapeInv
<1>1. CASE call'.pc \notin Opened
  BY <1>1 DEF BytesInv
<1>2. CASE OpenLoader
  <2>1. call'.pc \in Opened => OpenModel(D)
    BY <1>0, <1>2, OpenLoaderOutcome DEF Outcome
  <2>2. call'.pc \notin Loaded
    BY <1>0, <1>2, OpenLoaderOutcome DEF Outcome
  <2>3. directory' = directory /\ config' = config
    BY <1>2 DEF OpenLoader, generator
  <2> QED BY <2>1, <2>2, <2>3, SameBytes DEF BytesInv
<1>3. CASE /\ directory' = directory /\ config' = config /\ weights' = weights
           /\ call'.pc \in Opened => call.pc \in Opened
           /\ call'.pc \in Loaded => call.pc \in Loaded
  BY <1>0, <1>3, SameBytes DEF BytesInv
<1>4. CASE Replace
  <2>1. call'.pc = "idle"
    BY <1>4 DEF Replace
  <2> QED BY <1>1, <2>1
<1>5. CASE LoadModel
  <2>1. call'.pc \in {"idle", "devices"}
    BY <1>5 DEF LoadModel, NoCall
  <2> QED BY <1>1, <2>1
<1>6. CASE SelectDevices
  <2>1. call'.pc \in {"idle", "config"}
    BY <1>0, <1>6, SelectDevicesOutcome DEF Outcome
  <2> QED BY <1>1, <2>1
<1>7. CASE ReadConfig
  <2>1. call'.pc \in {"idle", "open"}
    BY <1>7, ReadConfigTyped, ReadConfigOutcome DEF Outcome
  <2> QED BY <1>1, <2>1
<1>8. CASE PlanDistributed
  BY <1>0, <1>3, <1>8, PlanDistributedOutcome DEF Outcome, PlanDistributed, generator
<1>9. CASE LoadLayer
  BY <1>0, <1>3, <1>9, LoadLayerOutcome DEF Outcome, LoadLayer, generator
<1>10. CASE LoadShared
  <2>1. CASE SharedLoads(D)
    <3>1. weights'.total = BytesOf(D, ModelNames(D, config))
      BY <1>10, <2>1, SharedTotal
    <3>2. OpenModel(D) /\ directory' = directory /\ config' = config
      BY <1>0, <1>10 DEF BytesInv, LoadShared
    <3> QED BY <3>1, <3>2, SameBytes DEF BytesInv
  <2>2. CASE ~SharedLoads(D)
    <3>1. call'.pc = "idle"
      BY <1>0, <1>10, <2>2, LoadSharedOutcome DEF Outcome
    <3> QED BY <1>1, <3>1
  <2> QED BY <2>1, <2>2
<1>11. CASE LoadMtp
  <2>1. CASE MtpLoads(D, config)
    <3>1. weights' = [weights EXCEPT !.mtp = MtpWeights]
      BY <1>0, <1>11, <2>1, LoadMtpOutcome
    <3>2. WeightsShape(weights)
      BY DEF TotalInv, LoadInv, ShapeInv
    <3>3. weights'.total = weights.total
      BY <3>1, <3>2 DEF WeightsShape
    <3>4. OpenModel(D) /\ weights.total = BytesOf(D, ModelNames(D, config))
          /\ directory' = directory /\ config' = config
      BY <1>0, <1>11 DEF BytesInv, LoadMtp
    <3> QED BY <3>3, <3>4, SameBytes DEF BytesInv
  <2>2. CASE ~MtpLoads(D, config)
    <3>1. call'.pc = "idle"
      BY <1>0, <1>11, <2>2, LoadMtpOutcome DEF Outcome
    <3> QED BY <1>1, <3>1
  <2> QED BY <2>1, <2>2
<1>12. CASE ReadTokenizer
  BY <1>0, <1>3, <1>12, ReadTokenizerOutcome DEF Outcome, ReadTokenizer
<1>13. CASE Publish
  <2>1. call'.pc = "idle"
    BY <1>0, <1>13, PublishOutcome
  <2> QED BY <1>1, <2>1
<1>14. CASE BackendFails
  <2>1. call'.pc = "idle"
    BY <1>0, <1>14 DEF CallShape, BackendFails
  <2> QED BY <1>1, <2>1
<1>15. CASE UNCHANGED vars
  BY <1>3, <1>15 DEF vars, generator
<1> QED BY <1>2, <1>4, <1>5, <1>6, <1>7, <1>8, <1>9, <1>10, <1>11, <1>12, <1>13,
           <1>14, <1>15 DEF Next, Step

\* Only the end of a call counts its bytes anew.
LEMMA NextPlanned ==
  ASSUME TotalInv, [Next]_vars
  PROVE  BytesPlannedOnce'
<1>0. CallShape /\ BytesPlannedOnce
  BY DEF TotalInv, LoadInv, ShapeInv
<1>1. CASE call'.status # "ok"
  BY <1>1 DEF BytesPlannedOnce
<1>2. CASE Publish
  <2>1. weights.total = BytesOf(D, ModelNames(D, config)) /\ D = Content(call.dir)
    BY <1>2, ContentFacts DEF TotalInv, BytesInv, Publish
  <2>2. weights' = weights /\ config' = config /\ call'.dir = call.dir
    BY <1>0, <1>2, PublishOutcome DEF Publish
  <2> QED BY <2>1, <2>2 DEF BytesPlannedOnce, ModelNames
<1>3. CASE weights' = weights /\ config' = config /\ call' = call
  BY <1>0, <1>3 DEF BytesPlannedOnce
<1>4. call.pc # "idle" => call.status # "ok"
  BY DEF TotalInv, LoadInv, StageInv
<1>5. CASE LoadModel
  <2>1. call'.status # "ok"
    BY <1>5 DEF LoadModel, NoCall
  <2> QED BY <1>1, <2>1
<1>6. CASE SelectDevices
  BY <1>0, <1>1, <1>4, <1>6, SelectDevicesOutcome DEF Outcome, SelectDevices
<1>7. CASE ReadConfig
  BY <1>1, <1>4, <1>7, ReadConfigTyped, ReadConfigOutcome DEF Outcome, ReadConfig
<1>8. CASE OpenLoader
  BY <1>0, <1>1, <1>4, <1>8, OpenLoaderOutcome DEF Outcome, OpenLoader
<1>9. CASE PlanDistributed
  BY <1>0, <1>1, <1>4, <1>9, PlanDistributedOutcome DEF Outcome, PlanDistributed
<1>10. CASE LoadLayer
  BY <1>0, <1>1, <1>4, <1>10, LoadLayerOutcome DEF Outcome, LoadLayer
<1>11. CASE LoadShared
  BY <1>0, <1>1, <1>4, <1>11, LoadSharedOutcome DEF Outcome, LoadShared
<1>12. CASE LoadMtp
  BY <1>0, <1>1, <1>4, <1>12, LoadMtpOutcome DEF Outcome, LoadMtp
<1>13. CASE ReadTokenizer
  BY <1>0, <1>1, <1>4, <1>13, ReadTokenizerOutcome DEF Outcome, ReadTokenizer
<1>14. CASE BackendFails
  <2>1. call'.status # "ok"
    BY <1>0, <1>14 DEF CallShape, BackendFails
  <2> QED BY <1>1, <2>1
<1>15. CASE Replace
  BY <1>3, <1>15 DEF Replace, generator
<1>16. CASE UNCHANGED vars
  BY <1>3, <1>16 DEF vars, generator
<1> QED BY <1>2, <1>5, <1>6, <1>7, <1>8, <1>9, <1>10, <1>11, <1>12, <1>13, <1>14,
           <1>15, <1>16 DEF Next, Step

LEMMA InitTotal == Init => TotalInv
<1> SUFFICES ASSUME Init PROVE TotalInv
  OBVIOUS
<1>1. LoadInv
  BY InitLoad
<1>2. FieldTypes(config)
  BY ConfigAssumption DEF Init, FieldTypes, IsRecord, RecordOf
<1>3. devices \in Seq(Range(Machine) \cup {Cpu})
  <2> DEFINE S == Range(Machine) \cup {Cpu}
  <2> HIDE DEF S
  <2>1. << >> \in Seq(S)
    BY EmptySeq
  <2> QED BY <2>1 DEF Init, S
<1>w. /\ weights.from = NoDirectory /\ weights.total = 0 /\ Len(weights.mtp) = 0
      /\ tokenizer.vocab = NoDirectory /\ tokenizer.bytes = FALSE /\ loaded = FALSE
  <2>1. Len(<< >>) = 0
    OBVIOUS
  <2> QED BY <2>1 DEF Init, NoWeights, NoTokenizer
<1>c. caches \in [{"attention", "mtp", "deltanet"} -> Nat] /\ call.status = "none"
  BY DEF Init, NoCall
<1>4. ValueInv
  <2>1. weights.total \in Nat /\ Len(weights.mtp) <= 1
    BY <1>w
  <2>2. /\ loaded \in BOOLEAN /\ weights.from \in Directory \cup {NoDirectory}
        /\ tokenizer.vocab \in Directory \cup {NoDirectory} /\ tokenizer.bytes \in BOOLEAN
    BY <1>w
  <2> QED BY <1>2, <1>3, <1>c, <2>1, <2>2 DEF ValueInv
<1>5. BytesInv /\ BytesPlannedOnce
  BY DEF Init, BytesInv, BytesPlannedOnce, NoCall
<1> QED BY <1>1, <1>4, <1>5 DEF TotalInv

LEMMA NextTotal ==
  ASSUME TotalInv, [Next]_vars
  PROVE  TotalInv'
<1>1. LoadInv'
  BY NextLoad DEF TotalInv
<1>2. ValueInv'
  BY WeightValues, ConfigValues, DeviceValues, TokenizerValues, CacheValues,
     StatusValues DEF ValueInv
<1> QED BY <1>1, <1>2, NextBytes, NextPlanned DEF TotalInv

LEMMA TotalInvariant == Spec => []TotalInv
BY InitTotal, NextTotal, PTL DEF Spec

\* Every field of the generator keeps its type, whatever the files hold and
\* wherever a call fails: no id that was rejected stays, no unknown layer type,
\* no byte count below zero. (generator.cc:392-431, qwen3_config.cc:12-208)
THEOREM LoadingTypes == Spec => []TypeOK
<1>1. TotalInv => TypeOK
  BY DEF TotalInv, LoadInv, StageInv, ValueInv, FieldTypes, IsRecord, TypeOK
<1> QED BY <1>1, TotalInvariant, PTL

\* After a call that returns OK the bytes planned over all devices are the
\* bytes of the model's tensors, each counted once, for every number of devices
\* and layers. (qwen3_weights.cc:396-440, 486)
THEOREM PlannedOnce == Spec => []BytesPlannedOnce
<1>1. TotalInv => BytesPlannedOnce
  BY DEF TotalInv
<1> QED BY <1>1, TotalInvariant, PTL

-----------------------------------------------------------------------------
(* What a first call accepts.                                              *)

LEMMA LoadJsonAccepts ==
  ASSUME NEW old, NEW f, FieldTypes(old), IsConfig(f)
  PROVE  /\ LoadJson(old, f).end = "ok" <=> UsableConfig(f, old)
         /\ LoadJson(old, f).end = "ok" =>
              LET c == LoadJson(old, f).config IN
              /\ c.layers = LayersRead(old, f) /\ c.layers \in Nat \ {0}
              /\ c.mtp = MtpRead(f) /\ c.mtp \in Nat
              /\ c.layer_types = Schedule(c.layers, IntervalRead(old, f))
<1> DEFINE l == LayersRead(old, f)
           i == IntervalRead(old, f)
           e == EosRead(f)
           t == TypesRead(old, f)
           NoBadId == \A k \in 1 .. Len(e) : e[k] # BadId
           AllKnown == \A k \in 1 .. Len(t) : t[k] # "unknown"
           c == Typed(old, f)
           NumbersFit == /\ SizesFit(SizesRead(old.sizes, f))
                         /\ \A gate \in Gates : Overlay(old.gates, f.gates)[gate]
<1>1. /\ l \in Int /\ i \in Int /\ MtpRead(f) \in Int
      /\ e \in Seq(Nat \cup {BadId}) /\ t \in Seq({"full", "linear", "unknown"})
  BY ReadTypes
<1>2. UpToBad(e, BadId) = e <=> NoBadId
  <2> DEFINE S == Nat \cup {BadId}
  <2>1. e \in Seq(S)
    BY <1>1
  <2> HIDE DEF e, S
  <2>2. UpToBad(e, BadId) = e <=> \A k \in 1 .. Len(e) : e[k] # BadId
    BY <2>1, UpToBadFacts
  <2> QED BY <2>2
<1>3. UpToBad(t, "unknown") = t <=> AllKnown
  <2> DEFINE S == {"full", "linear", "unknown"}
             u == "unknown"
  <2>1. t \in Seq(S)
    BY <1>1
  <2> HIDE DEF t, S, u
  <2>2. UpToBad(t, u) = t <=> \A k \in 1 .. Len(t) : t[k] # u
    BY <2>1, UpToBadFacts
  <2> QED BY <2>2 DEF u
<1>4. /\ c.layers = l /\ c.interval = i /\ c.mtp = MtpRead(f)
      /\ c.sizes = SizesRead(old.sizes, f) /\ c.gates = Overlay(old.gates, f.gates)
      /\ c.layer_types = UpToBad(t, "unknown")
  BY RecordFields DEF Typed, WithTypes
<1>5. ValidConfig(c) <=>
        NumbersFit /\ l > 0 /\ i > 0 /\ UpToBad(t, "unknown") = Schedule(l, i)
  <2> HIDE DEF c, l, i, t
  <2> QED BY <1>4 DEF ValidConfig
<1>6. f.layer_types = << >> \/ f.layer_types = <<f.layer_types[1]>>
  <2> DEFINE k == f.layer_types
             S == Seq({"full", "linear", "unknown"})
  <2>1. k \in Seq(S) /\ Len(k) <= 1
    BY DEF IsConfig, IsKey
  <2> HIDE DEF k, S
  <2>2. CASE k # << >>
    <3>1. Len(k) = 1
      <4>1. Len(k) \in Nat \ {0}
        BY <2>1, <2>2, EmptySeq
      <4> DEFINE m == Len(k)
      <4>2. m \in Nat \ {0} /\ m <= 1
        BY <2>1, <4>1
      <4> HIDE DEF m
      <4>3. m = 1
        BY <4>2
      <4> QED BY <4>3 DEF m
    <3>2. <<k[1]>> \in Seq(S) /\ Len(<<k[1]>>) = 1 /\ <<k[1]>>[1] = k[1]
      <4>0. 1 \in 1 .. Len(k)
        BY <3>1
      <4>1. k[1] \in S
        BY <2>1, <4>0, ElementOfSeq
      <4> QED BY <4>1
    <3>3. \A j \in 1 .. Len(k) : k[j] = <<k[1]>>[j]
      BY <3>1, <3>2
    <3>4. k = <<k[1]>>
      BY <2>1, <3>1, <3>2, <3>3, SeqEqual
    <3> QED BY <3>4 DEF k
  <2> QED BY <2>2 DEF k
<1>7. i > 0 => (t = Schedule(l, i) <=>
                  f.layer_types = << >> \/ f.layer_types = <<Schedule(l, i)>>)
  <2>1. ASSUME i > 0, f.layer_types = << >>
        PROVE  t = Schedule(l, i)
    <3> HIDE DEF l, i
    <3> QED BY <2>1 DEF TypesRead, LayerTypes, l, i
  <2>2. ASSUME f.layer_types # << >>
        PROVE  t = f.layer_types[1]
    BY <2>2 DEF TypesRead, LayerTypes
  <2>3. <<Schedule(l, i)>>[1] = Schedule(l, i) /\ <<Schedule(l, i)>> # << >>
    OBVIOUS
  <2> HIDE DEF l, i, t
  <2> QED BY <1>6, <2>1, <2>2, <2>3
<1>8. t = Schedule(l, i) => AllKnown
  <2>1. Schedule(l, i) \in Seq({"full", "linear"})
    BY <1>1, ScheduleFacts
  <2> DEFINE s == Schedule(l, i)
  <2>2. \A k \in 1 .. Len(s) : s[k] \in {"full", "linear"}
    <3> HIDE DEF s
    <3> QED BY <2>1, ElementOfSeq DEF s
  <2> HIDE DEF s, t
  <2>3. \A k \in 1 .. Len(s) : s[k] # "unknown"
    BY <2>2
  <2> QED BY <2>3 DEF s
<1>9. UsableConfig(f, old) <=>
        /\ f.readable /\ NumbersFit /\ l > 0 /\ i > 0
        /\ \/ f.layer_types = << >> /\ l <= MaxLayers
           \/ f.layer_types = <<Schedule(l, i)>>
        /\ NoBadId /\ MtpRead(f) \in 0 .. MaxInt32
  BY DEF UsableConfig, LayersRead, IntervalRead, EosRead, MtpRead
<1>r. l > 0 /\ i > 0 => (Unreserved(old, f) <=> f.layer_types = << >> /\ ~(l <= MaxLayers))
  <2>1. l > 0 => (l \in 0 .. MaxLayers <=> l <= MaxLayers)
    BY <1>1, CheckpointAssumption
  <2> HIDE DEF l, i
  <2> QED BY <2>1 DEF Unreserved, CannotReserve, l, i
<1>s. f.layer_types = <<Schedule(l, i)>> => f.layer_types # << >>
  OBVIOUS
<1> DEFINE ok == UpToBad(t, "unknown") = t /\ ValidConfig(c)
<1> HIDE DEF l, i, e, t, c, NumbersFit
<1>10. LoadJson(old, f).end = "ok" <=>
         /\ f.readable /\ MtpRead(f) \in 0 .. MaxInt32 /\ NoBadId
         /\ ~Unreserved(old, f) /\ AllKnown /\ ValidConfig(c)
  <2>1. ValidConfig(c) \in BOOLEAN /\ f.readable \in BOOLEAN
    BY DEF ValidConfig, IsConfig
  <2>2. LoadJson(old, f) =
          IF ~f.readable THEN [config |-> old, end |-> "failed"]
          ELSE IF MtpRead(f) \notin 0 .. MaxInt32
          THEN [config |-> Numbers(old, f), end |-> "failed"]
          ELSE IF UpToBad(e, BadId) # e THEN [config |-> Ended(old, f), end |-> "failed"]
          ELSE IF Unreserved(old, f)
          THEN [config |-> WithTypes(old, f, << >>), end |-> "threw"]
          ELSE [config |-> c, end |-> IF ok THEN "ok" ELSE "failed"]
    BY LoadJsonIs DEF FieldTypes, e, t, c
  <2> HIDE DEF NoBadId, AllKnown, ok
  <2>3. LoadJson(old, f).end = "ok" <=>
         /\ f.readable /\ MtpRead(f) \in 0 .. MaxInt32 /\ UpToBad(e, BadId) = e
         /\ ~Unreserved(old, f) /\ ok
    BY <2>1, <2>2
  <2> QED BY <1>2, <1>3, <2>3 DEF ok
<1>11. LoadJson(old, f).end = "ok" => LoadJson(old, f).config = c
  BY LoadJsonIs DEF c, FieldTypes
<1>12. LoadJson(old, f).end = "ok" <=> UsableConfig(f, old)
  <2> HIDE DEF NoBadId, AllKnown
  <2> QED BY <1>1, <1>3, <1>5, <1>7, <1>8, <1>9, <1>10, <1>r, <1>s
<1>13. ASSUME LoadJson(old, f).end = "ok"
       PROVE  /\ c.layers = l /\ c.layers \in Nat \ {0}
              /\ c.mtp = MtpRead(f) /\ c.mtp \in Nat
              /\ c.layer_types = Schedule(l, i)
  <2>1. MtpRead(f) \in Nat
    BY <1>10, <1>13, CheckpointAssumption
  <2> QED BY <1>1, <1>3, <1>4, <1>5, <1>10, <1>13, <2>1
<1> QED BY <1>11, <1>12, <1>13 DEF l, i

\* The files.
HoldsEntries(d) ==
  /\ d.indexed \in {"yes", "no"}
  /\ \A s \in FilesOf(d) :
       /\ d.shards[s].state = "good"
       /\ \A n \in DOMAIN d.shards[s].entries :
            LET e == d.shards[s].entries[n] IN
            /\ e.dtype = "known"
            /\ e.begin \in 0 .. e.end /\ e.end \in 0 .. d.shards[s].size
            /\ e.begin + (e.bytes % Word) = e.end
  /\ d.indexed = "yes" =>
       \A n \in DOMAIN d.weight_map : n \in DOMAIN d.shards[d.weight_map[n]].entries

LEMMA ShardHolds ==
  ASSUME NEW s, IsShard(s)
  PROVE  ShardParses(s) <=>
           /\ s.state = "good"
           /\ \A n \in DOMAIN s.entries :
                LET e == s.entries[n] IN
                /\ e.dtype = "known"
                /\ e.begin \in 0 .. e.end /\ e.end \in 0 .. s.size
                /\ e.begin + (e.bytes % Word) = e.end
<1> SUFFICES ASSUME NEW n \in DOMAIN s.entries
             PROVE  EntryIsValid(s.entries[n], s.size) <=>
                      LET e == s.entries[n] IN
                      /\ e.dtype = "known"
                      /\ e.begin \in 0 .. e.end /\ e.end \in 0 .. s.size
                      /\ e.begin + (e.bytes % Word) = e.end
  BY DEF ShardParses
<1> DEFINE e == s.entries[n]
<1>1. e.begin \in Nat /\ e.end \in Nat /\ e.bytes \in Nat /\ s.size \in Nat
  BY CheckpointAssumption DEF IsShard
<1> DEFINE rest == e.bytes % Word
<1>2. rest \in Int
  BY <1>1, CheckpointAssumption
<1>3. EntryIsValid(e, s.size) <=>
        e.dtype = "known" /\ e.begin <= e.end /\ e.end <= s.size /\ rest = e.end - e.begin
  BY DEF EntryIsValid
<1> HIDE DEF e, rest
<1>4. EntryIsValid(e, s.size) <=>
        /\ e.dtype = "known"
        /\ e.begin \in 0 .. e.end /\ e.end \in 0 .. s.size
        /\ e.begin + rest = e.end
  BY <1>1, <1>2, <1>3
<1> QED BY <1>4 DEF e, rest

LEMMA OpenIsHolds ==
  ASSUME NEW d, IsDirectory(d)
  PROVE  OpenModel(d) <=> HoldsEntries(d)
<1>1. d.indexed \in {"yes", "no", "bad"} /\ \A s \in DOMAIN d.shards : IsShard(d.shards[s])
  BY DEF IsDirectory
<1> DEFINE Good(s) == /\ d.shards[s].state = "good"
                      /\ \A n \in DOMAIN d.shards[s].entries :
                           LET e == d.shards[s].entries[n] IN
                           /\ e.dtype = "known"
                           /\ e.begin \in 0 .. e.end /\ e.end \in 0 .. d.shards[s].size
                           /\ e.begin + (e.bytes % Word) = e.end
<1>2. \A s \in DOMAIN d.shards : ShardParses(d.shards[s]) <=> Good(s)
  BY <1>1, ShardHolds
<1>3. OpenModel(d) <=>
        /\ d.indexed # "bad"
        /\ IF d.indexed = "yes"
           THEN \A n \in DOMAIN d.weight_map :
                  /\ ShardParses(d.shards[d.weight_map[n]])
                  /\ n \in DOMAIN d.shards[d.weight_map[n]].entries
           ELSE ShardParses(d.shards["model"])
  BY DEF OpenModel
<1>4. HoldsEntries(d) <=>
        /\ d.indexed \in {"yes", "no"}
        /\ \A s \in FilesOf(d) : Good(s)
        /\ d.indexed = "yes" =>
             \A n \in DOMAIN d.weight_map : n \in DOMAIN d.shards[d.weight_map[n]].entries
  BY DEF HoldsEntries
<1> HIDE DEF Good
<1>5. CASE d.indexed = "yes"
  <2>1. FilesOf(d) \subseteq DOMAIN d.shards
    BY DEF IsDirectory
  <2>2. FilesOf(d) = {d.weight_map[n] : n \in DOMAIN d.weight_map}
    BY <1>5 DEF FilesOf, Range
  <2> QED BY <1>2, <1>3, <1>4, <1>5, <2>1, <2>2
<1>6. CASE d.indexed = "no"
  <2>1. FilesOf(d) = {"model"} /\ "model" \in DOMAIN d.shards
    BY <1>6 DEF IsDirectory, FilesOf
  <2> QED BY <1>2, <1>3, <1>4, <1>6, <2>1
<1>7. CASE d.indexed = "bad"
  BY <1>3, <1>4, <1>7
<1> QED BY <1>1, <1>5, <1>6, <1>7

\* The tensors.
GoodName(d, n) ==
  /\ n \in Tensors(d)
  /\ d.format[n] \in IF n.part \in {"norms", "embed", "norm", "lm_head"}
                     THEN {"dense", "scaled", "unscaled"}
                     ELSE {"dense", "scaled"}
Wanted(l, interval) == IF KindAt(l, interval) = "full" THEN "attention" ELSE "linear"
Other(l, interval) == IF KindAt(l, interval) = "full" THEN "linear" ELSE "attention"

LEMMA FilesHoldNames ==
  ASSUME NEW d, NEW names
  PROVE  FilesHold(d, names) <=> HoldsEntries(d) /\ \A n \in names : GoodName(d, n)
BY DEF FilesHold, HoldsEntries, GoodName

LEMMA GoodNames ==
  ASSUME NEW d, IsDirectory(d)
  PROVE  /\ \A l : PlainLoads(d, Of(l, "norms")) <=> GoodName(d, Of(l, "norms"))
         /\ \A l : \A p \in {"attention", "linear", "mlp"} :
              QuantizedLoads(d, Of(l, p)) <=> GoodName(d, Of(l, p))
         /\ \A p \in {"embed", "norm", "lm_head"} :
              PlainLoads(d, Model(p)) <=> GoodName(d, Model(p))
         /\ QuantizedLoads(d, Model("mtp")) <=> GoodName(d, Model("mtp"))
<1>1. \A n \in Tensors(d) : d.format[n] \in {"dense", "scaled", "unscaled", "torn"}
  BY DEF IsDirectory
<1>2. \A l, p : Of(l, p).part = p
  BY DEF Of
<1>3. \A n : n.part \in {"norms", "embed", "norm", "lm_head"} =>
        (PlainLoads(d, n) <=> GoodName(d, n))
  BY <1>1 DEF PlainLoads, GoodName
<1>4. \A n : n.part \in {"attention", "linear", "mlp", "mtp"} =>
        (QuantizedLoads(d, n) <=> GoodName(d, n))
  BY DEF QuantizedLoads, GoodName
<1>5. \A l : PlainLoads(d, Of(l, "norms")) <=> GoodName(d, Of(l, "norms"))
  BY <1>2, <1>3
<1>6. \A l : \A p \in {"attention", "linear", "mlp"} :
        QuantizedLoads(d, Of(l, p)) <=> GoodName(d, Of(l, p))
  BY <1>2, <1>4
<1>7. \A p \in {"embed", "norm", "lm_head"} :
        PlainLoads(d, Model(p)) <=> GoodName(d, Model(p))
  BY <1>2, <1>3 DEF Model
<1>8. QuantizedLoads(d, Model("mtp")) <=> GoodName(d, Model("mtp"))
  BY <1>2, <1>4 DEF Model
<1> QED BY <1>5, <1>6, <1>7, <1>8

LEMMA LayerAccepted ==
  ASSUME NEW d, IsDirectory(d), NEW L \in Nat \ {0}, NEW interval, NEW c,
         c.layer_types = Schedule(L, interval), NEW l \in 0 .. L - 1
  PROVE  LayerLoads(d, c, l) <=>
           /\ GoodName(d, Of(l, "norms")) /\ GoodName(d, Of(l, "mlp"))
           /\ GoodName(d, Of(l, Wanted(l, interval)))
           /\ Of(l, Other(l, interval)) \notin Tensors(d)
<1> DEFINE attention == Of(l, "attention")
           linear == Of(l, "linear")
           T == Tensors(d)
<1>1. c.layer_types[l + 1] = KindAt(l, interval)
  <2>1. l + 1 \in 1 .. L /\ (l + 1) - 1 = l
    OBVIOUS
  <2> QED BY <2>1 DEF Schedule
<1>2. /\ PlainLoads(d, Of(l, "norms")) <=> GoodName(d, Of(l, "norms"))
      /\ QuantizedLoads(d, Of(l, "mlp")) <=> GoodName(d, Of(l, "mlp"))
      /\ QuantizedLoads(d, attention) <=> GoodName(d, attention)
      /\ QuantizedLoads(d, linear) <=> GoodName(d, linear)
  BY GoodNames
<1>3. LayerLoads(d, c, l) <=>
        /\ PlainLoads(d, Of(l, "norms"))
        /\ (attention \in T) # (linear \in T)
        /\ (KindAt(l, interval) = "full") = (attention \in T)
        /\ IF KindAt(l, interval) = "full" THEN QuantizedLoads(d, attention)
                                           ELSE QuantizedLoads(d, linear)
        /\ QuantizedLoads(d, Of(l, "mlp"))
  BY <1>1 DEF LayerLoads
<1>4. \A n : GoodName(d, n) => n \in T
  BY DEF GoodName
<1>5. CASE KindAt(l, interval) = "full"
  <2>1. Wanted(l, interval) = "attention" /\ Other(l, interval) = "linear"
    BY <1>5 DEF Wanted, Other
  <2> HIDE DEF attention, linear, T
  <2>2. LayerLoads(d, c, l) <=>
          /\ GoodName(d, Of(l, "norms")) /\ GoodName(d, Of(l, "mlp"))
          /\ GoodName(d, attention) /\ linear \notin T
    BY <1>2, <1>3, <1>4, <1>5
  <2> QED BY <2>1, <2>2 DEF attention, linear, T
<1>6. CASE KindAt(l, interval) # "full"
  <2>1. Wanted(l, interval) = "linear" /\ Other(l, interval) = "attention"
    BY <1>6 DEF Wanted, Other
  <2> HIDE DEF attention, linear, T
  <2>2. LayerLoads(d, c, l) <=>
          /\ GoodName(d, Of(l, "norms")) /\ GoodName(d, Of(l, "mlp"))
          /\ GoodName(d, linear) /\ attention \notin T
    BY <1>2, <1>3, <1>4, <1>6
  <2> QED BY <2>1, <2>2 DEF attention, linear, T
<1> QED BY <1>5, <1>6

LEMMA FilesAccepted ==
  ASSUME NEW d, IsDirectory(d), NEW L \in Nat \ {0}, NEW interval, NEW c,
         c.layers = L, c.layer_types = Schedule(L, interval), NEW mtp \in BOOLEAN
  PROVE  /\ OpenModel(d) /\ \A l \in 0 .. L - 1 : LayerLoads(d, c, l)
         /\ SharedLoads(d) /\ (mtp => MtpLoads(d, c))
         <=>
         /\ FilesHold(d, Needed(L, interval, mtp))
         /\ Unwanted(L, interval) \cap Tensors(d) = {} /\ (mtp => c.mtp > 0)
<1> DEFINE Layers == \A l \in 0 .. L - 1 :
                       /\ GoodName(d, Of(l, "norms")) /\ GoodName(d, Of(l, "mlp"))
                       /\ GoodName(d, Of(l, Wanted(l, interval)))
           Shared == \A p \in {"embed", "norm", "lm_head"} : GoodName(d, Model(p))
           Mtp == GoodName(d, Model("mtp"))
           Free == \A l \in 0 .. L - 1 : Of(l, Other(l, interval)) \notin Tensors(d)
<1>1. (\A l \in 0 .. L - 1 : LayerLoads(d, c, l)) <=> Layers /\ Free
  BY LayerAccepted
<1>2. SharedLoads(d) <=> Shared
  BY GoodNames DEF SharedLoads
<1>3. MtpLoads(d, c) <=> c.mtp > 0 /\ Mtp
  BY GoodNames DEF MtpLoads
<1>4. (\A n \in Needed(L, interval, mtp) : GoodName(d, n)) <=>
        Layers /\ Shared /\ (mtp => Mtp)
  <2> DEFINE A == {Of(l, p) : l \in 0 .. L - 1, p \in {"norms", "mlp"}}
             B == {Of(l, Wanted(l, interval)) : l \in 0 .. L - 1}
             C == {Model(p) : p \in {"embed", "norm", "lm_head"}}
             E == IF mtp THEN {Model("mtp")} ELSE {}
  <2>1. Needed(L, interval, mtp) = ((A \cup B) \cup C) \cup E
    BY DEF Needed, Wanted
  <2>2. (\A n \in A : GoodName(d, n)) <=>
          \A l \in 0 .. L - 1 : GoodName(d, Of(l, "norms")) /\ GoodName(d, Of(l, "mlp"))
    OBVIOUS
  <2>3. (\A n \in B : GoodName(d, n)) <=>
          \A l \in 0 .. L - 1 : GoodName(d, Of(l, Wanted(l, interval)))
    OBVIOUS
  <2>4. (\A n \in C : GoodName(d, n)) <=> Shared
    OBVIOUS
  <2>5. (\A n \in E : GoodName(d, n)) <=> (mtp => Mtp)
    OBVIOUS
  <2> HIDE DEF A, B, C, E, Shared, Mtp
  <2> QED BY <2>1, <2>2, <2>3, <2>4, <2>5
<1>5. Unwanted(L, interval) \cap Tensors(d) = {} <=> Free
  <2>1. Unwanted(L, interval) = {Of(l, Other(l, interval)) : l \in 0 .. L - 1}
    BY DEF Unwanted, Other
  <2> QED BY <2>1
<1>6. FilesHold(d, Needed(L, interval, mtp)) <=>
        HoldsEntries(d) /\ \A n \in Needed(L, interval, mtp) : GoodName(d, n)
  BY FilesHoldNames
<1> HIDE DEF Layers, Shared, Mtp, Free
<1> QED BY <1>1, <1>2, <1>3, <1>4, <1>5, <1>6, OpenIsHolds

LEMMA TokenizerAccepted ==
  ASSUME NEW d, IsDirectory(d)
  PROVE  TokenizerLoads(d) <=>
           /\ d.tokenizer.state = "good"
           /\ \A i \in 1 .. Len(d.tokenizer.eos) : d.tokenizer.eos[i] # BadId
<1>1. d.tokenizer.eos \in Seq(Nat \cup {BadId})
  BY DEF IsDirectory
<1> DEFINE ids == d.tokenizer.eos
<1>2. UpToBad(ids, BadId) = ids <=> \A i \in 1 .. Len(ids) : ids[i] # BadId
  BY <1>1, UpToBadFacts
<1> QED BY <1>2 DEF TokenizerLoads

\* The checks of load(), in its order.
Accepts(d, o) ==
  LET read == LoadJson(DefaultConfig, d.config) IN
  /\ Selected(o) # << >> /\ read.end = "ok" /\ OpenModel(d)
  /\ Fits(Selected(o), read.config)
  /\ \A l \in 0 .. read.config.layers - 1 : LayerLoads(d, read.config, l)
  /\ SharedLoads(d) /\ (o.enable_mtp => MtpLoads(d, read.config))
  /\ TokenizerLoads(d)

\* What they accept are the directories whose parts fit together.
LEMMA AcceptsUsable ==
  ASSUME NEW d, IsDirectory(d), NEW o \in Options
  PROVE  Accepts(d, o) <=>
           /\ Usable(d, DefaultConfig, o.enable_mtp)
           /\ Selected(o) # << >>
           /\ \A k \in 1 .. Len(Selected(o)) : Selected(o)[k].is_gpu
           /\ Len(Selected(o)) <= Field(d.config.layers, DefaultConfig.layers)
<1> DEFINE f == d.config
           read == LoadJson(DefaultConfig, f)
           ok == read.end = "ok"
           c == read.config
           L == Field(f.layers, DefaultConfig.layers)
           interval == Field(f.interval, DefaultConfig.interval)
           mtp == o.enable_mtp
           devs == Selected(o)
           Gpus == \A k \in 1 .. Len(devs) : devs[k].is_gpu
<1>1. mtp \in BOOLEAN
  BY LoadingAssumption
<1>2. FieldTypes(DefaultConfig) /\ IsConfig(f)
  BY ConfigAssumption DEF RecordOf, IsRecord, FieldTypes, IsDirectory
<1>3. /\ ok <=> UsableConfig(f, DefaultConfig)
      /\ ok => /\ c.layers = L /\ c.layers \in Nat \ {0} /\ c.mtp = Field(f.mtp, 0)
                    /\ c.layer_types = Schedule(c.layers, interval)
  BY <1>2, LoadJsonAccepts DEF LayersRead, IntervalRead, MtpRead
<1>4. Accepts(d, o) <=>
        /\ devs # << >> /\ ok /\ OpenModel(d) /\ Fits(devs, c)
        /\ \A l \in 0 .. c.layers - 1 : LayerLoads(d, c, l)
        /\ SharedLoads(d) /\ (mtp => MtpLoads(d, c))
        /\ TokenizerLoads(d)
  BY DEF Accepts
<1>5. Usable(d, DefaultConfig, mtp) <=>
        /\ UsableConfig(f, DefaultConfig)
        /\ FilesHold(d, Needed(L, interval, mtp))
        /\ Unwanted(L, interval) \cap Tensors(d) = {}
        /\ mtp => Field(f.mtp, 0) > 0
        /\ d.tokenizer.state = "good"
        /\ \A i \in 1 .. Len(d.tokenizer.eos) : d.tokenizer.eos[i] # BadId
  BY DEF Usable
<1>6. CASE ok
  <2>1. L \in Nat \ {0} /\ c.layers = L /\ c.layer_types = Schedule(L, interval)
        /\ c.mtp = Field(f.mtp, 0)
    BY <1>3, <1>6
  <2>2. Fits(devs, c) <=> Gpus /\ Len(devs) <= L
    <3> HIDE DEF c, devs, L
    <3> QED BY <2>1 DEF Fits
  <2> HIDE DEF c, L, interval, mtp, Gpus, devs, read
  <2>3. /\ OpenModel(d) /\ \A l \in 0 .. L - 1 : LayerLoads(d, c, l)
        /\ SharedLoads(d) /\ (mtp => MtpLoads(d, c))
        <=>
        /\ FilesHold(d, Needed(L, interval, mtp))
        /\ Unwanted(L, interval) \cap Tensors(d) = {} /\ (mtp => c.mtp > 0)
    BY <1>1, <2>1, FilesAccepted
  <2>4. Accepts(d, o) <=> Usable(d, DefaultConfig, mtp) /\ devs # << >> /\ Gpus
                          /\ Len(devs) <= L
    BY <1>3, <1>4, <1>5, <1>6, <2>1, <2>2, <2>3, TokenizerAccepted
  <2> QED BY <2>4 DEF mtp, devs, Gpus, L
<1>7. CASE ~ok
  BY <1>3, <1>4, <1>5, <1>7
<1> QED BY <1>6, <1>7

-----------------------------------------------------------------------------
(* The first call.                                                         *)

\* The checks that it has passed when it reaches a stage.
Passed ==
  LET read == LoadJson(DefaultConfig, D.config) IN
  /\ ~call.faulty /\ call.status = "running"
  /\ call.pc \in Selecting => config = DefaultConfig
  /\ call.pc \in {"config"} \cup Configured =>
       devices = Selected(options) /\ devices # << >>
  /\ call.pc \in Configured => read.end = "ok" /\ config = read.config
  /\ call.pc \in {"layers"} \cup Loaded =>
       /\ Fits(devices, config)
       /\ \A l \in 0 .. call.next_layer - 1 : LayerLoads(D, config, l)
  /\ call.pc \in Loaded => call.next_layer = config.layers /\ SharedLoads(D)
  /\ call.pc \in {"tokenizer", "publish"} /\ options.enable_mtp => MtpLoads(D, config)
  /\ call.pc = "publish" => TokenizerLoads(D)

\* When it has returned it has decided as Accepts does.
Judged ==
  ~call.faulty =>
    (call.status = "ok" <=>
       call.dir # NoDirectory /\ Accepts(Content(call.dir), options))

FirstInv ==
  /\ call.count \in Nat
  /\ call.dir \in Directory \cup {NoDirectory}
  /\ call.count = 0 => call = NoCall /\ config = DefaultConfig
  /\ call.count = 1 => IF call.pc = "idle" THEN Judged ELSE Passed
DecisionInv == TotalInv /\ FirstInv

\* A check of the first call that fails decides it.
LEMMA FailJudged ==
  ASSUME DecisionInv, NEW stage, Outcome(FALSE, stage), call.pc # "idle",
         call.count = 1 => ~Accepts(D, options)
  PROVE  FirstInv'
<1>1. /\ call'.count = call.count /\ call'.dir = call.dir /\ call'.pc = "idle"
      /\ call'.status # "ok" /\ options' = options
  BY DEF Outcome
<1>2. D = Content(call.dir)
  BY ContentFacts DEF DecisionInv, TotalInv
<1>3. call.count # 0
  BY DEF DecisionInv, FirstInv, NoCall
<1>4. call.count = 1 => Judged'
  BY <1>1, <1>2 DEF Judged, Accepts
<1> QED BY <1>1, <1>3, <1>4 DEF DecisionInv, FirstInv

\* A step of a later call decides nothing.
LEMMA LaterCalls ==
  ASSUME DecisionInv, call'.count = call.count, call'.dir = call.dir,
         call.pc # "idle", call.count # 1
  PROVE  FirstInv'
<1>1. call.count # 0
  BY DEF DecisionInv, FirstInv, NoCall
<1> QED BY <1>1 DEF DecisionInv, FirstInv

\* The stages of a first call.
LEMMA StagePassed ==
  ASSUME DecisionInv, call.pc # "idle", call.count = 1
  PROVE  Passed /\ CallShape /\ OpenModel(D) \in BOOLEAN
BY DEF DecisionInv, FirstInv, TotalInv, LoadInv, ShapeInv, OpenModel

LEMMA GoesOn ==
  ASSUME DecisionInv, call.pc # "idle", NEW stage, stage # "idle",
         Outcome(TRUE, stage), call.count = 1 => Passed'
  PROVE  FirstInv'
<1>1. call'.count = call.count /\ call'.dir = call.dir /\ call'.pc = stage
  BY DEF Outcome
<1>2. call.count # 0
  BY DEF DecisionInv, FirstInv, NoCall
<1> QED BY <1>1, <1>2 DEF DecisionInv, FirstInv

LEMMA SelectDevicesFirst ==
  ASSUME DecisionInv, SelectDevices
  PROVE  FirstInv'
<1> DEFINE passes == Selected(options) # << >>
<1>0. CallShape /\ call.pc = "devices"
  BY DEF DecisionInv, TotalInv, LoadInv, ShapeInv, SelectDevices
<1>1. /\ Outcome(passes, "config") /\ devices' = Selected(options) /\ config' = config
  BY <1>0, SelectDevicesOutcome
<1>2. CASE ~passes
  <2>1. ~Accepts(D, options)
    BY <1>2 DEF Accepts
  <2>2. Outcome(FALSE, "config")
    BY <1>1, <1>2 DEF Outcome
  <2> QED BY <1>0, <2>1, <2>2, FailJudged
<1>3. CASE passes
  <2>1. Outcome(TRUE, "config")
    BY <1>1, <1>3 DEF Outcome
  <2>2. ASSUME call.count = 1 PROVE Passed'
    <3>1. Passed
      BY <1>0, <2>2, StagePassed
    <3> QED BY <1>0, <1>1, <1>3, <2>1, <3>1 DEF Passed, Outcome
  <2> QED BY <1>0, <2>1, <2>2, GoesOn
<1> QED BY <1>2, <1>3

LEMMA ReadConfigFirst ==
  ASSUME DecisionInv, ReadConfig
  PROVE  FirstInv'
<1> DEFINE read == LoadJson(config, D.config)
           ok == read.end = "ok"
<1>0. CallShape /\ call.pc = "config"
  BY DEF DecisionInv, TotalInv, LoadInv, ShapeInv, ReadConfig
<1>1. Outcome(ok, "open") /\ config' = read.config /\ devices' = devices
  BY ReadConfigTyped, ReadConfigOutcome DEF DecisionInv
<1>2. call.count = 1 => Passed /\ read = LoadJson(DefaultConfig, D.config)
  <2>1. ASSUME call.count = 1
        PROVE  Passed /\ read = LoadJson(DefaultConfig, D.config)
    <3>1. Passed
      BY <1>0, <2>1, StagePassed
    <3> QED BY <1>0, <3>1 DEF Passed
  <2> QED BY <2>1
<1> HIDE DEF read
<1>3. CASE ~ok
  <2>1. call.count = 1 => ~Accepts(D, options)
    BY <1>2, <1>3 DEF Accepts
  <2>2. Outcome(FALSE, "open")
    BY <1>1, <1>3 DEF Outcome
  <2> QED BY <1>0, <2>1, <2>2, FailJudged
<1>4. CASE ok
  <2>1. Outcome(TRUE, "open") /\ directory' = directory
    BY <1>1, <1>4 DEF Outcome
  <2>2. ASSUME call.count = 1 PROVE Passed'
    <3>1. Passed /\ D' = D
      BY <1>2, <2>1, <2>2 DEF D
    <3> QED BY <1>0, <1>1, <1>2, <1>4, <2>1, <2>2, <3>1 DEF Passed, Outcome
  <2> QED BY <1>0, <2>1, <2>2, GoesOn
<1> QED BY <1>3, <1>4

LEMMA OpenLoaderFirst ==
  ASSUME DecisionInv, OpenLoader
  PROVE  FirstInv'
<1>0. CallShape /\ call.pc = "open"
  BY DEF DecisionInv, TotalInv, LoadInv, ShapeInv, OpenLoader
<1>1. Outcome(OpenModel(D), "plan") /\ Kept
  BY <1>0, OpenLoaderOutcome
<1>2. CASE ~OpenModel(D)
  <2>1. ~Accepts(D, options)
    BY <1>2 DEF Accepts
  <2>2. Outcome(FALSE, "plan")
    BY <1>1, <1>2 DEF Outcome
  <2> QED BY <1>0, <2>1, <2>2, FailJudged
<1>3. CASE OpenModel(D)
  <2>1. Outcome(TRUE, "plan") /\ directory' = directory
    BY <1>1, <1>3 DEF Outcome
  <2>2. ASSUME call.count = 1 PROVE Passed'
    <3>1. Passed /\ D' = D
      BY <1>0, <2>1, <2>2, StagePassed DEF D
    <3> QED BY <1>0, <1>1, <2>1, <3>1 DEF Passed, Outcome, Kept
  <2> QED BY <1>0, <2>1, <2>2, GoesOn
<1> QED BY <1>2, <1>3

LEMMA PlanDistributedFirst ==
  ASSUME DecisionInv, PlanDistributed
  PROVE  FirstInv'
<1>0. CallShape /\ call.pc = "plan" /\ call.next_layer = 0
  BY DEF DecisionInv, TotalInv, LoadInv, ShapeInv, StageInv, PlanDistributed
<1>1. /\ Outcome(Fits(devices, config), "layers")
      /\ SameLayer(Fits(devices, config)) /\ Kept
  BY <1>0, PlanDistributedOutcome
<1>2. CASE ~Fits(devices, config)
  <2>1. call.count = 1 => ~Accepts(D, options)
    <3>1. call.count = 1 => Passed
      BY <1>0, StagePassed
    <3> QED BY <1>0, <1>2, <3>1 DEF Passed, Accepts
  <2>2. Outcome(FALSE, "layers")
    BY <1>1, <1>2 DEF Outcome
  <2> QED BY <1>0, <2>1, <2>2, FailJudged
<1>3. CASE Fits(devices, config)
  <2>1. Outcome(TRUE, "layers") /\ directory' = directory
    BY <1>1, <1>3 DEF Outcome
  <2>2. ASSUME call.count = 1 PROVE Passed'
    <3>1. Passed /\ D' = D
      BY <1>0, <2>1, <2>2, StagePassed DEF D
    <3>2. Fits(devices, config)' /\ call'.next_layer = 0
      BY <1>0, <1>1, <1>3 DEF Fits, Kept, SameLayer
    <3>3. (\A l \in 0 .. call.next_layer - 1 : LayerLoads(D, config, l))'
      BY <3>2
    <3> QED BY <1>0, <1>1, <2>1, <3>1, <3>2, <3>3 DEF Passed, Outcome, Kept
  <2> QED BY <1>0, <2>1, <2>2, GoesOn
<1> QED BY <1>2, <1>3

LEMMA LoadLayerFirst ==
  ASSUME DecisionInv, LoadLayer
  PROVE  FirstInv'
<1> DEFINE n == call.next_layer
<1>0. /\ CallShape /\ call.pc = "layers" /\ n < config.layers
      /\ n \in 0 .. config.layers /\ config.layers \in Nat
  BY DEF DecisionInv, TotalInv, LoadInv, ShapeInv, ConfigInv, ResultInv, LayersUpTo,
         LoadLayer
<1>1. /\ Outcome(LayerLoads(D, config, n), "layers") /\ Kept
      /\ LayerLoads(D, config, n) => call'.next_layer = n + 1
  BY <1>0, LoadLayerOutcome
<1>2. CASE ~LayerLoads(D, config, n)
  <2>1. call.count = 1 => ~Accepts(D, options)
    <3>1. call.count = 1 => Passed
      BY <1>0, StagePassed
    <3>2. n \in 0 .. config.layers - 1
      BY <1>0
    <3> QED BY <1>0, <1>2, <3>1, <3>2 DEF Passed, Accepts
  <2>2. Outcome(FALSE, "layers")
    BY <1>1, <1>2 DEF Outcome
  <2> QED BY <1>0, <2>1, <2>2, FailJudged
<1>3. CASE LayerLoads(D, config, n)
  <2>1. Outcome(TRUE, "layers") /\ directory' = directory
    BY <1>1, <1>3 DEF Outcome
  <2>2. ASSUME call.count = 1 PROVE Passed'
    <3>1. Passed /\ D' = D
      BY <1>0, <2>1, <2>2, StagePassed DEF D
    <3>2. Fits(devices, config)'
      BY <1>0, <1>1, <3>1 DEF Passed, Fits, Kept
    <3>3. (\A l \in 0 .. call.next_layer - 1 : LayerLoads(D, config, l))'
      <4>1. \A l \in 0 .. n - 1 : LayerLoads(D, config, l)
        BY <1>0, <3>1 DEF Passed
      <4>2. \A l \in 0 .. n + 1 - 1 : l \in 0 .. n - 1 \/ l = n
        BY <1>0
      <4>3. \A l \in 0 .. n + 1 - 1 : LayerLoads(D, config, l)
        BY <1>3, <4>1, <4>2
      <4>4. call'.next_layer = n + 1 /\ config' = config /\ D' = D
        BY <1>1, <1>3, <3>1 DEF Kept
      <4>5. \A l \in 0 .. call'.next_layer - 1 : LayerLoads(D', config', l)
        <5>1. call'.next_layer - 1 = n + 1 - 1
          BY <1>0, <4>4
        <5> HIDE DEF n
        <5>2. \A l \in 0 .. call'.next_layer - 1 : LayerLoads(D, config, l)
          BY <1>0, <4>3, <5>1
        <5> QED BY <4>4, <5>2
      <4> QED BY <4>5
    <3> QED BY <1>0, <1>1, <2>1, <3>1, <3>2, <3>3 DEF Passed, Outcome, Kept
  <2> QED BY <1>0, <2>1, <2>2, GoesOn
<1> QED BY <1>2, <1>3

LEMMA LoadSharedFirst ==
  ASSUME DecisionInv, LoadShared
  PROVE  FirstInv'
<1>0. /\ CallShape /\ call.pc = "layers" /\ call.next_layer = config.layers
      /\ options.enable_mtp \in BOOLEAN
  BY LoadingAssumption
  DEF DecisionInv, TotalInv, LoadInv, ShapeInv, StageInv, LoadShared
<1>1. /\ Outcome(SharedLoads(D), AfterShared) /\ SameLayer(SharedLoads(D)) /\ Kept
  BY <1>0, LoadSharedOutcome
<1>2. CASE ~SharedLoads(D)
  <2>1. ~Accepts(D, options)
    BY <1>2 DEF Accepts
  <2>2. Outcome(FALSE, AfterShared)
    BY <1>1, <1>2 DEF Outcome
  <2> QED BY <1>0, <2>1, <2>2, FailJudged
<1>3. CASE SharedLoads(D)
  <2>1. Outcome(TRUE, AfterShared) /\ directory' = directory /\ options' = options
    BY <1>1, <1>3 DEF Outcome
  <2>a. /\ AfterShared \in {"mtp", "tokenizer"}
        /\ AfterShared = "tokenizer" => ~options.enable_mtp
    BY <1>0 DEF AfterShared
  <2>2. ASSUME call.count = 1 PROVE Passed'
    <3>1. Passed /\ D' = D
      BY <1>0, <2>1, <2>2, StagePassed DEF D
    <3>2. call'.next_layer = call.next_layer /\ call'.pc = AfterShared
      BY <1>1, <1>3, <2>1 DEF SameLayer, Outcome
    <3>3. /\ Fits(devices, config)'
          /\ (\A l \in 0 .. call.next_layer - 1 : LayerLoads(D, config, l))'
      BY <1>0, <1>1, <3>1, <3>2 DEF Passed, Fits, Kept
    <3>4. (SharedLoads(D))' /\ config' = config /\ devices' = devices
      BY <1>1, <1>3, <3>1 DEF Kept
    <3> QED BY <1>0, <2>1, <2>a, <3>1, <3>2, <3>3, <3>4 DEF Passed, Outcome
  <2> QED BY <1>0, <2>1, <2>a, <2>2, GoesOn
<1> QED BY <1>2, <1>3

LEMMA LoadMtpFirst ==
  ASSUME DecisionInv, LoadMtp
  PROVE  FirstInv'
<1>0. CallShape /\ call.pc = "mtp" /\ options.enable_mtp
  BY DEF DecisionInv, TotalInv, LoadInv, ShapeInv, PublishInv, LoadMtp
<1>1. /\ Outcome(MtpLoads(D, config), "tokenizer")
      /\ SameLayer(MtpLoads(D, config)) /\ Kept
  BY <1>0, LoadMtpOutcome
<1>2. CASE ~MtpLoads(D, config)
  <2>1. call.count = 1 => ~Accepts(D, options)
    <3>1. call.count = 1 => Passed
      BY <1>0, StagePassed
    <3> QED BY <1>0, <1>2, <3>1 DEF Passed, Accepts
  <2>2. Outcome(FALSE, "tokenizer")
    BY <1>1, <1>2 DEF Outcome
  <2> QED BY <1>0, <2>1, <2>2, FailJudged
<1>3. CASE MtpLoads(D, config)
  <2>1. Outcome(TRUE, "tokenizer") /\ directory' = directory /\ options' = options
    BY <1>1, <1>3 DEF Outcome
  <2>2. ASSUME call.count = 1 PROVE Passed'
    <3>1. Passed /\ D' = D
      BY <1>0, <2>1, <2>2, StagePassed DEF D
    <3>2. /\ call'.next_layer = call.next_layer /\ config' = config
          /\ devices' = devices
      BY <1>1, <1>3 DEF SameLayer, Kept
    <3>3. /\ Fits(devices, config)'
          /\ (\A l \in 0 .. call.next_layer - 1 : LayerLoads(D, config, l))'
          /\ (SharedLoads(D))' /\ (MtpLoads(D, config))'
      BY <1>0, <1>3, <3>1, <3>2 DEF Passed, Fits
    <3> QED BY <1>0, <2>1, <3>1, <3>2, <3>3 DEF Passed, Outcome
  <2> QED BY <1>0, <2>1, <2>2, GoesOn
<1> QED BY <1>2, <1>3

LEMMA ReadTokenizerFirst ==
  ASSUME DecisionInv, ReadTokenizer
  PROVE  FirstInv'
<1>0. CallShape /\ call.pc = "tokenizer"
  BY DEF DecisionInv, TotalInv, LoadInv, ShapeInv, ReadTokenizer
<1>1. Outcome(TokenizerLoads(D), "publish") /\ SameLayer(TokenizerLoads(D)) /\ Kept
  BY <1>0, ReadTokenizerOutcome
<1>2. CASE ~TokenizerLoads(D)
  <2>1. ~Accepts(D, options)
    BY <1>2 DEF Accepts
  <2>2. Outcome(FALSE, "publish")
    BY <1>1, <1>2 DEF Outcome
  <2> QED BY <1>0, <2>1, <2>2, FailJudged
<1>3. CASE TokenizerLoads(D)
  <2>1. Outcome(TRUE, "publish") /\ directory' = directory /\ options' = options
    BY <1>1, <1>3 DEF Outcome
  <2>2. ASSUME call.count = 1 PROVE Passed'
    <3>1. Passed /\ D' = D
      BY <1>0, <2>1, <2>2, StagePassed DEF D
    <3>2. /\ call'.next_layer = call.next_layer /\ config' = config
          /\ devices' = devices
      BY <1>1, <1>3 DEF SameLayer, Kept
    <3>3. /\ Fits(devices, config)'
          /\ (\A l \in 0 .. call.next_layer - 1 : LayerLoads(D, config, l))'
          /\ (SharedLoads(D))' /\ (TokenizerLoads(D))'
          /\ (options.enable_mtp => MtpLoads(D, config))'
      BY <1>0, <1>3, <2>1, <3>1, <3>2 DEF Passed, Fits
    <3> QED BY <1>0, <2>1, <3>1, <3>2, <3>3 DEF Passed, Outcome
  <2> QED BY <1>0, <2>1, <2>2, GoesOn
<1> QED BY <1>2, <1>3

\* A first call that returns OK has passed every check.
LEMMA PublishFirst ==
  ASSUME DecisionInv, Publish
  PROVE  FirstInv'
<1>0. CallShape /\ call.pc = "publish"
  BY DEF DecisionInv, TotalInv, LoadInv, ShapeInv, Publish
<1>1. /\ call'.count = call.count /\ call'.dir = call.dir /\ call'.faulty = call.faulty
      /\ call'.pc = "idle" /\ call'.status = "ok"
      /\ directory' = directory /\ options' = options /\ Kept
  BY <1>0, PublishOutcome
<1>2. call.dir # NoDirectory /\ D = Content(call.dir)
  BY <1>0, ContentFacts, LoadingAssumption DEF DecisionInv, TotalInv, LoadInv, StageInv
<1>3. ASSUME call.count = 1 PROVE Accepts(D, options)
  <2>1. Passed /\ OpenModel(D)
    BY <1>0, <1>3, StagePassed DEF DecisionInv, TotalInv, BytesInv
  <2> QED BY <1>0, <2>1 DEF Passed, Accepts
<1>4. call.count = 1 => Judged'
  BY <1>1, <1>2, <1>3 DEF Judged, Accepts
<1>5. call.count # 0
  BY <1>0 DEF DecisionInv, FirstInv, NoCall
<1> QED BY <1>1, <1>4, <1>5 DEF DecisionInv, FirstInv

LEMMA LoadModelFirst ==
  ASSUME DecisionInv, LoadModel
  PROVE  FirstInv'
<1>1. /\ call'.count = call.count + 1 /\ call'.dir = directory /\ call'.faulty = FALSE
      /\ IF directory = NoDirectory
         THEN call'.pc = "idle" /\ call'.status = "failed"
         ELSE call'.pc = "devices" /\ call'.status = "running"
      /\ config' = config /\ options' = options
  BY DEF LoadModel, NoCall, generator
<1>2. call.count \in Nat /\ directory \in Directory \cup {NoDirectory}
  BY DEF DecisionInv, FirstInv, TotalInv, LoadInv, StageInv
<1>3. ASSUME call'.count = 1
      PROVE  IF call'.pc = "idle" THEN Judged' ELSE Passed'
  <2>1. call.count = 0
    BY <1>1, <1>2, <1>3
  <2>2. config = DefaultConfig
    BY <2>1 DEF DecisionInv, FirstInv
  <2>3. CASE directory = NoDirectory
    BY <1>1, <2>3 DEF Judged
  <2>4. CASE directory # NoDirectory
    BY <1>1, <2>2, <2>4 DEF Passed
  <2> QED BY <1>1, <2>3, <2>4
<1> QED BY <1>1, <1>2, <1>3 DEF FirstInv

LEMMA SameCall ==
  ASSUME FirstInv, call' = call, config' = config, devices' = devices,
         options' = options, call.pc # "idle" => directory' = directory
  PROVE  FirstInv'
<1>1. Judged => Judged'
  BY DEF Judged, Accepts
<1>2. ASSUME call.pc # "idle", Passed PROVE Passed'
  <2>1. D' = D
    BY <1>2 DEF D
  <2> QED BY <1>2, <2>1 DEF Passed, Fits
<1> QED BY <1>1, <1>2 DEF FirstInv

LEMMA NextDecision ==
  ASSUME DecisionInv, [Next]_vars
  PROVE  DecisionInv'
<1>14. TotalInv'
  BY NextTotal DEF DecisionInv
<1> SUFFICES FirstInv'
  BY <1>14 DEF DecisionInv
<1>1. CASE Replace
  BY <1>1, SameCall DEF DecisionInv, Replace, generator
<1>2. CASE LoadModel
  BY <1>2, LoadModelFirst
<1>3. CASE SelectDevices
  BY <1>3, SelectDevicesFirst
<1>4. CASE ReadConfig
  BY <1>4, ReadConfigFirst
<1>5. CASE OpenLoader
  BY <1>5, OpenLoaderFirst
<1>6. CASE PlanDistributed
  BY <1>6, PlanDistributedFirst
<1>7. CASE LoadLayer
  BY <1>7, LoadLayerFirst
<1>8. CASE LoadShared
  BY <1>8, LoadSharedFirst
<1>9. CASE LoadMtp
  BY <1>9, LoadMtpFirst
<1>10. CASE ReadTokenizer
  BY <1>10, ReadTokenizerFirst
<1>11. CASE Publish
  BY <1>11, PublishFirst
<1>12. CASE BackendFails
  <2>1. /\ call'.count = call.count /\ call'.dir = call.dir /\ call'.pc = "idle"
        /\ call'.faulty = TRUE /\ call.pc # "idle"
    BY <1>12 DEF DecisionInv, TotalInv, LoadInv, ShapeInv, CallShape, BackendFails
  <2>2. call.count # 0
    BY <2>1 DEF DecisionInv, FirstInv, NoCall
  <2>3. Judged'
    BY <2>1 DEF Judged
  <2> QED BY <2>1, <2>2, <2>3 DEF DecisionInv, FirstInv
<1>13. CASE UNCHANGED vars
  BY <1>13, SameCall DEF DecisionInv, vars, generator
<1> QED
  BY <1>1, <1>2, <1>3, <1>4, <1>5, <1>6, <1>7, <1>8, <1>9, <1>10, <1>11, <1>12,
     <1>13 DEF Next, Step

LEMMA InitDecision == Init => DecisionInv
<1> SUFFICES ASSUME Init PROVE DecisionInv
  OBVIOUS
<1>1. FirstInv
  BY DEF Init, FirstInv, NoCall
<1> QED BY <1>1, InitTotal DEF DecisionInv

\* For every machine, every set of options and whatever the files hold: a first
\* call of load_model() in which the backend does not fail returns OK for a
\* directory whose parts fit together (tensor sizes compared modulo 2^64, as the
\* code does), on enough matching devices, and for no other; otherwise it
\* returns an error or throws. (generator.cc:392-431, qwen3_config.cc:12-208,
\* safetensor_loader.cc:73-246)
THEOREM FirstCallDecides == Spec => []FirstCallIsExact
<1>1. ASSUME DecisionInv PROVE FirstCallIsExact
  <2> SUFFICES ASSUME call.count = 1, call.status \in {"ok", "failed", "threw"},
                      ~call.faulty
               PROVE  call.status = "ok" <=>
                 /\ call.dir # NoDirectory
                 /\ Usable(Content(call.dir), DefaultConfig, options.enable_mtp)
                 /\ Selected(options) # << >>
                 /\ \A k \in 1 .. Len(Selected(options)) : Selected(options)[k].is_gpu
                 /\ Len(Selected(options)) <=
                      Field(Content(call.dir).config.layers, DefaultConfig.layers)
    BY DEF FirstCallIsExact
  <2>1. call.pc = "idle"
    BY <1>1, StagePassed DEF Passed
  <2>2. call.status = "ok" <=>
          call.dir # NoDirectory /\ Accepts(Content(call.dir), options)
    BY <1>1, <2>1 DEF DecisionInv, FirstInv, Judged
  <2>3. CASE call.dir = NoDirectory
    BY <2>2, <2>3
  <2>4. CASE call.dir # NoDirectory
    <3>1. call.dir \in Directory /\ options \in Options
      BY <1>1, <2>4 DEF DecisionInv, FirstInv, TotalInv, LoadInv, StageInv
    <3>2. IsDirectory(Content(call.dir))
      BY <3>1, DirectoryAssumption
    <3> QED BY <2>2, <2>4, <3>1, <3>2, AcceptsUsable
  <2> QED BY <2>3, <2>4
<1>2. Spec => []DecisionInv
  BY InitDecision, NextDecision, PTL DEF Spec
<1> QED BY <1>1, <1>2, PTL
=============================================================================
