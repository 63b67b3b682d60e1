------------------------------- MODULE Loading -------------------------------
(***************************************************************************)
(* Generator::load_model() (src/generator.cc, lines 392-431) with the      *)
(* weight loader it drives (src/models/qwen3_weights.cc), called any       *)
(* number of times on a model directory that may be replaced between the   *)
(* calls. What a call reads from the directory is in module Checkpoint,    *)
(* where the layers go in module Placement.                                *)
(*                                                                         *)
(* The fields of the generator are written one by one as the call goes on, *)
(* and a call that fails returns at once; one that throws leaves the       *)
(* fields as they are then, and its caller may call again. Any step that   *)
(* needs the backend or reads tensor data may fail (BackendFails). A       *)
(* directory is not replaced while a call reads it.                        *)
(***************************************************************************)
EXTENDS Placement, Checkpoint

CONSTANTS
  Directory,      \* identities of directory contents
  Content(_),     \* the record of a directory
  NoDirectory,
  Machine,        \* DeviceManager's devices: a sequence of records
  Options,        \* [backend, max_devices, enable_mtp]
  DefaultConfig,  \* the initial values of Qwen3Config's fields
  MaxCalls        \* bound on the calls of load_model()

ASSUME LoadingAssumption ==
  /\ NoDirectory \notin Directory
  /\ MaxCalls \in Nat \ {0}
  /\ \A o \in Options : o.enable_mtp \in BOOLEAN /\ o.max_devices \in Int

ASSUME ConfigAssumption ==
  DefaultConfig \in [layers : Int, interval : Int, sizes : [Sizes -> Int],
                     gates : [Gates -> BOOLEAN], mtp : Nat, eos : Seq(Nat),
                     layer_types : Seq({"full", "linear"})]

ASSUME DirectoryAssumption == \A d \in Directory : IsDirectory(Content(d))

VARIABLES
  directory,   \* what options_.model_dir holds
  options,
  loaded,      \* loaded_
  config,      \* config_
  devices,     \* devices_
  weights,     \* weights_
  tokenizer,   \* tokenizer_
  caches,      \* lengths of the three cache vectors
  call         \* the call under way, or the last one

generator == <<loaded, config, devices, weights, tokenizer, caches>>
vars == <<directory, options, generator, call>>

NoWeights == [from |-> NoDirectory, layers |-> << >>, partitions |-> << >>,
              shared |-> << >>, total |-> 0, mtp |-> << >>]
NoTokenizer == [vocab |-> NoDirectory, eos |-> << >>, bytes |-> FALSE]

\* pc is the next step of load(), result and next_layer the locals of
\* load_distributed(); faulty records that the backend failed.
NoCall == [count |-> 0, pc |-> "idle", status |-> "none", dir |-> NoDirectory,
           result |-> NoWeights, next_layer |-> 0, faulty |-> FALSE]

Init ==
  /\ directory \in Directory \cup {NoDirectory}
  /\ options \in Options
  /\ loaded = FALSE /\ config = DefaultConfig /\ devices = << >>
  /\ weights = NoWeights /\ tokenizer = NoTokenizer
  /\ caches = [attention |-> 0, mtp |-> 0, deltanet |-> 0]
  /\ call = NoCall

D == Content(directory)

\* A step returns its error, or an exception leaves the call; what was loaded so
\* far is a local and goes.
End(how) == call' = [call EXCEPT !.pc = "idle", !.status = how,
                                 !.result = NoWeights, !.next_layer = 0]
Fail == End("failed")
Throw == End("threw")
Goto(pc) == call' = [call EXCEPT !.pc = pc]

\* The directory is replaced by whoever owns it.
Replace ==
  /\ call.pc = "idle" /\ call.count < MaxCalls
  /\ directory' \in (Directory \cup {NoDirectory}) \ {directory}
  /\ UNCHANGED <<options, generator, call>>

-----------------------------------------------------------------------------
LoadModel ==
  /\ call.pc = "idle" /\ call.count < MaxCalls
  /\ call' = [NoCall EXCEPT
                !.count = call.count + 1, !.dir = directory,
                !.pc = IF directory = NoDirectory THEN "idle" ELSE "devices",
                !.status = IF directory = NoDirectory THEN "failed" ELSE "running"]
  /\ UNCHANGED <<directory, options, generator>>

\* select_gpu_devices(): the first max_devices devices that match; max_devices
\* counts as 1 when it is not positive.
Matching(backend) ==
  SelectSeq(Machine, LAMBDA d : d.is_gpu /\ (backend = "gpu" \/ d.backend = backend))
select_gpu_devices(backend, max_devices) ==
  LET all == Matching(backend)
  IN SubSeq(all, 1, IF Len(all) < max_devices THEN Len(all) ELSE max_devices)
Cpu == [name |-> "cpu", backend |-> "cpu", is_gpu |-> FALSE]

Selected(o) ==
  LET gpus == select_gpu_devices(o.backend, IF o.max_devices <= 0 THEN 1 ELSE o.max_devices)
  IN IF gpus = << >> /\ o.backend = "cpu" THEN <<Cpu>> ELSE gpus

\* The devices of a request are a list of the machine's devices.
ASSUME SelectionAssumption ==
  \A o \in Options : Selected(o) \in Seq(Range(Machine) \cup {Cpu})

SelectDevices ==
  /\ call.pc = "devices"
  /\ devices' = Selected(options)
  /\ IF devices' = << >> THEN Fail ELSE Goto("config")
  /\ UNCHANGED <<directory, options, loaded, config, weights, tokenizer, caches>>

ReadConfig ==
  /\ call.pc = "config"
  /\ LET read == LoadJson(config, D.config) IN
       config' = read.config /\ IF read.end = "ok" THEN Goto("open") ELSE End(read.end)
  /\ UNCHANGED <<directory, options, loaded, devices, weights, tokenizer, caches>>

\* The safetensors loader is a local: nothing of it stays after a failure.
OpenLoader ==
  /\ call.pc = "open"
  /\ \/ OpenModel(D) /\ Goto("plan")
     \/ OpenFails(D) /\ Fail
     \/ OpenThrows(D) /\ Throw
  /\ UNCHANGED <<directory, options, generator>>

\* plan_distributed()
Count == Len(devices)
Partition(i) ==
  [device |-> devices[i + 1],
   first_layer |-> first_layer(config.layers, Count, i),
   last_layer |-> last_layer(config.layers, Count, i),
   weight_bytes |->
     BytesOf(D, {n \in Tensors(D) : n.layer \in Owned(config.layers, Count, i)})
     + (IF i = 0 THEN tensor_bytes(D, Model("embed")) ELSE 0)
     + (IF i = Count - 1
        THEN tensor_bytes(D, Model("norm")) + tensor_bytes(D, Model("lm_head"))
             + mtp_bytes(D, config.mtp)
        ELSE 0)]
Partitions == [k \in 1 .. Count |-> Partition(k - 1)]

PlanDistributed ==
  /\ call.pc = "plan"
  /\ IF /\ \A k \in 1 .. Count : devices[k].is_gpu
        /\ config.layers > 0 /\ Count <= config.layers
     THEN call' = [call EXCEPT !.pc = "layers",
                     !.result = [NoWeights EXCEPT !.from = directory,
                                                  !.partitions = Partitions]]
     ELSE Fail
  /\ UNCHANGED <<directory, options, generator>>

\* The layers are loaded partition by partition.
OwnerOf(l) ==
  LET p == call.result.partitions IN
  p[CHOOSE k \in DOMAIN p : l \in p[k].first_layer .. p[k].last_layer].device

LoadLayer ==
  LET l == call.next_layer IN
  /\ call.pc = "layers" /\ l < config.layers
  /\ IF LayerLoads(D, config, l)
     THEN call' = [call EXCEPT
            !.next_layer = l + 1,
            !.result.layers = Append(@, [kind |-> KindFound(D, l),
                                         device |-> OwnerOf(l), from |-> directory])]
     ELSE Fail
  /\ UNCHANGED <<directory, options, generator>>

\* The shared tensors, and weights_ replaced as a whole. Faulty variant: the
\* MTP weights that were there are kept.
WholeResultKeepingMtp(r) ==
  [r EXCEPT !.shared = <<devices[1], devices[Count], devices[Count]>>,
            !.mtp = weights.mtp,
            !.total = SumFunction([k \in DOMAIN r.partitions |->
                                     r.partitions[k].weight_bytes])]
WholeResult(r) ==
  [r EXCEPT !.shared = <<devices[1], devices[Count], devices[Count]>>,
            !.total = SumFunction([k \in DOMAIN r.partitions |->
                                     r.partitions[k].weight_bytes])]
LoadShared ==
  /\ call.pc = "layers" /\ call.next_layer = config.layers
  /\ IF SharedLoads(D)
     THEN /\ weights' = WholeResult(call.result)
          /\ call' = [call EXCEPT !.result = NoWeights,
                        !.pc = IF options.enable_mtp THEN "mtp" ELSE "tokenizer"]
     ELSE Fail /\ UNCHANGED weights
  /\ UNCHANGED <<directory, options, loaded, config, devices, tokenizer, caches>>

LoadMtp ==
  /\ call.pc = "mtp"
  /\ IF MtpLoads(D, config)
     THEN /\ weights' = [weights EXCEPT
               !.mtp = <<[from |-> directory, device |-> devices[Count],
                          layers |-> config.mtp]>>]
          /\ Goto("tokenizer")
     ELSE Fail /\ UNCHANGED weights
  /\ UNCHANGED <<directory, options, loaded, config, devices, tokenizer, caches>>

ReadTokenizer ==
  /\ call.pc = "tokenizer"
  /\ tokenizer' = LoadTokenizer(D, directory, NoDirectory)
  /\ IF tokenizer'.bytes THEN Goto("publish")
     ELSE IF D.tokenizer.state = "odd" THEN Throw ELSE Fail
  /\ UNCHANGED <<directory, options, loaded, config, devices, weights, caches>>

\* The cache vectors get the new lengths.
CacheSizes ==
  [attention |-> config.layers, mtp |-> config.mtp, deltanet |-> config.layers]
Publish ==
  /\ call.pc = "publish"
  /\ caches' = CacheSizes
  /\ loaded' = TRUE
  /\ call' = [call EXCEPT !.pc = "idle", !.status = "ok", !.next_layer = 0]
  /\ UNCHANGED <<directory, options, config, devices, weights, tokenizer>>

\* An allocation, a copy or a read of tensor data fails.
BackendFails ==
  /\ call.pc \in {"layers", "mtp"}
  /\ call' = [call EXCEPT !.pc = "idle", !.status = "failed", !.faulty = TRUE,
                          !.result = NoWeights, !.next_layer = 0]
  /\ UNCHANGED <<directory, options, generator>>

Step ==
  \/ SelectDevices \/ ReadConfig \/ OpenLoader \/ PlanDistributed
  \/ LoadLayer \/ LoadShared \/ LoadMtp \/ ReadTokenizer \/ Publish

Next == Replace \/ LoadModel \/ Step \/ BackendFails

Spec == Init /\ [][Next]_vars

-----------------------------------------------------------------------------
TypeOK ==
  /\ directory \in Directory \cup {NoDirectory} /\ options \in Options
  /\ loaded \in BOOLEAN
  /\ config.layers \in Int /\ config.interval \in Int /\ config.mtp \in Nat
  /\ config.sizes \in [Sizes -> Int] /\ config.gates \in [Gates -> BOOLEAN]
  /\ config.layer_types \in Seq({"full", "linear"}) /\ config.eos \in Seq(Nat)
  /\ devices \in Seq(Range(Machine) \cup {Cpu})
  /\ weights.from \in Directory \cup {NoDirectory} /\ weights.total \in Nat
  /\ Len(weights.mtp) <= 1
  /\ tokenizer.vocab \in Directory \cup {NoDirectory} /\ tokenizer.bytes \in BOOLEAN
  /\ caches \in [{"attention", "mtp", "deltanet"} -> Nat]
  /\ call.pc \in {"idle", "devices", "config", "open", "plan", "layers", "mtp",
                  "tokenizer", "publish"}
  /\ call.status \in {"none", "running", "ok", "failed", "threw"}

\* Layer l of w is on the device of the one partition that lists it.
OnItsDevice(w, l) ==
  \E k \in DOMAIN w.partitions :
    /\ l \in w.partitions[k].first_layer .. w.partitions[k].last_layer
    /\ w.layers[l + 1].device = w.partitions[k].device
    /\ \A j \in DOMAIN w.partitions :
         l \in w.partitions[j].first_layer .. w.partitions[j].last_layer => j = k

\* All layers from one directory and on their devices, embeddings on the first
\* and the head on the last device, MTP weights of the same model or none.
WholeModel(w) ==
  LET p == w.partitions
      L == Len(w.layers)
  IN /\ L > 0 /\ p[1].first_layer = 0 /\ p[Len(p)].last_layer = L - 1
     /\ \A l \in 0 .. L - 1 : w.layers[l + 1].from = w.from /\ OnItsDevice(w, l)
     /\ w.shared = <<p[1].device, p[Len(p)].device, p[Len(p)].device>>
     /\ \A k \in DOMAIN w.mtp :
          w.mtp[k].from = w.from /\ w.mtp[k].device = p[Len(p)].device

\* Whatever failed in whichever call, weights_ is empty or one whole model, and
\* never layers, shared tensors or MTP weights of different loads together.
\* (qwen3_weights.h, Qwen3DistributedWeights; qwen3_weights.cc:461-501)
WeightsAreWhole == weights # NoWeights => WholeModel(weights)

\* After load_model() returned OK, also when earlier calls failed half-way or
\* loaded another model: weights, tokenizer, devices and cache vectors are those
\* of this call's directory, the configuration passes load_json()'s checks and
\* has the directory's value in every field that its config.json settles (the
\* keys it gives, the defaults of mtp and eos, head_dim, rope_theta and
\* rope_head_dim where they follow from it). Nothing is claimed of the value of
\* a field that the file leaves open: the code keeps an earlier file's there.
\* (generator.cc:392-431, qwen3_config.cc:45-139)
OkMeansCoherent ==
  call.status = "ok" =>
    /\ loaded /\ ValidConfig(config)
    /\ Agrees(config, Content(call.dir).config, DefaultConfig)
    /\ weights.from = call.dir /\ tokenizer.vocab = call.dir /\ tokenizer.bytes
    /\ [k \in 1 .. Len(weights.layers) |-> weights.layers[k].kind] = config.layer_types
    /\ Len(weights.layers) = config.layers
    /\ [k \in DOMAIN weights.partitions |-> weights.partitions[k].device] = devices
    /\ IF options.enable_mtp
       THEN weights.mtp # << >> /\ weights.mtp[1].layers = config.mtp
       ELSE weights.mtp = << >>
    /\ caches = [attention |-> config.layers, mtp |-> config.mtp,
                 deltanet |-> config.layers]

\* The bytes planned for the devices are the bytes of the model's tensors, MTP
\* layers included, each counted once. (qwen3_weights.cc:427-437, 486)
BytesPlannedOnce ==
  call.status = "ok" =>
    weights.total =
      BytesOf(Content(call.dir),
              {n \in Tensors(Content(call.dir)) :
                 \/ n.layer \in 0 .. config.layers - 1
                 \/ n.part \in {"embed", "norm", "lm_head"}
                 \/ n.part = "mtp" /\ config.mtp > 0})

\* A first call returns OK exactly for a directory whose files fit together, on
\* a machine with a matching device for it, unless the backend fails; whatever
\* else it meets makes it return an error or throw. Fitting is judged as the
\* code can: a tensor's bytes modulo 2^64. (generator.cc:392-431,
\* qwen3_config.cc:12-208, safetensor_loader.cc:73-246, qwen_tokenizer.cc:60-188)
FirstCallIsExact ==
  call.count = 1 /\ call.status \in {"ok", "failed", "threw"} /\ ~call.faulty =>
    (call.status = "ok" <=>
       /\ call.dir # NoDirectory
       /\ Usable(Content(call.dir), DefaultConfig, options.enable_mtp)
       /\ Selected(options) # << >>
       /\ \A k \in 1 .. Len(Selected(options)) : Selected(options)[k].is_gpu
       /\ Len(Selected(options)) <=
            Field(Content(call.dir).config.layers, DefaultConfig.layers))
=============================================================================
