----------------------------- MODULE Checkpoint ------------------------------
(***************************************************************************)
(* A model directory as the loader reads it: config.json                   *)
(* (src/models/qwen3_config.cc), the safetensors files                     *)
(* (src/io/safetensor_loader.cc), the tensors of a layer                   *)
(* (src/models/qwen3_weights.cc) and the tokenizer's files                 *)
(* (src/tokenizer/qwen_tokenizer.cc, load).                                *)
(*                                                                         *)
(* A directory is a record:                                                *)
(*   config      config.json: sizes and gates are functions on the keys    *)
(*               that are there with a value of the right type, other keys *)
(*               sequences of at most one value                            *)
(*   indexed     "yes", "no" (a single model.safetensors) or "bad"         *)
(*   weight_map  the index: tensor name -> shard                           *)
(*   shards      shard -> [state, size, entries], entries being the        *)
(*               header: tensor name -> [dtype, begin, end, bytes]         *)
(*   format      tensor name -> how its data is stored                     *)
(*   tokenizer   [state, eos]                                              *)
(* The tensors that are loaded together stand for one name: per layer      *)
(* "norms", "attention", "linear" and "mlp", and for the model "embed",    *)
(* "norm", "lm_head" and "mtp".                                            *)
(*                                                                         *)
(* Reading ends "ok", "failed" (an error is returned) or "threw": some     *)
(* calls of the JSON library and of the standard library throw where no    *)
(* handler is near, and load_model() has none either.                      *)
(***************************************************************************)
EXTENDS Integers, Sequences, FiniteSets, Functions

CONSTANTS
  MaxInt32,   \* INT32_MAX
  MaxLayers,  \* the longest vector of layer types that can be reserved
  Word        \* the number of values of a uint64_t

ASSUME CheckpointAssumption ==
  MaxInt32 \in Nat /\ MaxLayers \in Nat /\ Word \in Nat \ {0}

Of(l, part) == [layer |-> l, part |-> part]
Model(part) == Of(-1, part)

\* An end-of-sequence id that is not an integer.
BadId == -1

-----------------------------------------------------------------------------
\* The numbers of Qwen3Config beside the layer counts, and the settings of
\* which one value is supported. A floating-point number is only compared with
\* zero. Fields that nothing in src/ reads are left out.
Sizes ==
  {"hidden_size", "num_attention_heads", "num_key_value_heads", "head_dim",
   "rope_head_dim", "intermediate_size", "vocab_size", "max_position_embeddings",
   "rope_theta", "rms_norm_eps", "linear_num_key_heads", "linear_num_value_heads",
   "linear_key_head_dim", "linear_value_head_dim", "linear_conv_kernel_dim"}
Gates == {"attn_output_gate", "output_gate_type", "mamba_ssm_dtype"}

\* A key that is missing, or of another type, leaves the field as it was.
Field(value, old) == IF value = << >> THEN old ELSE value[1]
Overlay(old, given) ==
  [key \in DOMAIN old |-> IF key \in DOMAIN given THEN given[key] ELSE old[key]]

\* Division of C++, towards zero.
Quotient(a, b) == IF a >= 0 THEN a \div b ELSE -((-a) \div b)

\* head_dim follows from other fields when the file has no such key; rope_theta
\* and partial_rotary_factor (in quarters) may stand in rope_parameters. Faulty
\* variant: the rotary part is taken before head_dim is known.
HeadDim(sizes, f) ==
  IF "head_dim" \notin DOMAIN f.sizes /\ ~f.odd_head_dim /\ sizes["num_attention_heads"] > 0
  THEN Quotient(sizes["hidden_size"], sizes["num_attention_heads"])
  ELSE sizes["head_dim"]
DerivedTooEarly(sizes, f) ==
  [sizes EXCEPT
     !["head_dim"] = HeadDim(sizes, f),
     !["rope_theta"] = Field(f.rope_theta, @),
     !["rope_head_dim"] =
        IF f.rotary = << >> THEN @ ELSE Quotient(sizes["head_dim"] * f.rotary[1], 4)]
Derived(sizes, f) ==
  [sizes EXCEPT
     !["head_dim"] = HeadDim(sizes, f),
     !["rope_theta"] = Field(f.rope_theta, @),
     !["rope_head_dim"] =
        IF f.rotary = << >> THEN @ ELSE Quotient(HeadDim(sizes, f) * f.rotary[1], 4)]
SizesRead(old, f) == Derived(Overlay(old, f.sizes), f)

\* A list is read up to the first value that is rejected. Faulty variant:
\* nothing is rejected.
WholeList(s, bad) == s
UpToBad(s, bad) ==
  LET n == CHOOSE k \in 0 .. Len(s) :
             /\ \A i \in 1 .. k : s[i] # bad
             /\ k < Len(s) => s[k + 1] = bad
  IN SubSeq(s, 1, n)

KindAt(index, interval) ==
  IF (index + 1) % interval = 0 THEN "full" ELSE "linear"
Schedule(layers, interval) ==
  [i \in 1 .. layers |-> KindAt(i - 1, interval)]

\* layer_types as given, or computed from the interval; room for them is
\* reserved first, which throws for a count that is negative (it becomes a huge
\* unsigned one) or too large.
CannotReserve(layer_types, layers, interval) ==
  layer_types = << >> /\ interval > 0 /\ layers \notin 0 .. MaxLayers
LayerTypes(layer_types, layers, interval) ==
  IF layer_types # << >> THEN layer_types[1]
  ELSE IF interval > 0 THEN Schedule(layers, interval) ELSE << >>

SizesFit(s) ==
  /\ \A key \in Sizes : s[key] > 0
  /\ s["linear_num_value_heads"] % s["linear_num_key_heads"] = 0
  /\ s["num_attention_heads"] % s["num_key_value_heads"] = 0
  /\ s["rope_head_dim"] <= s["head_dim"] /\ s["rope_head_dim"] % 2 = 0
ValidConfig(c) ==
  /\ SizesFit(c.sizes) /\ c.layers > 0 /\ c.interval > 0
  /\ c.layer_types = Schedule(c.layers, c.interval)
  /\ \A gate \in Gates : c.gates[gate]

\* load_json() changes the fields one after the other and leaves at the first
\* value it rejects: the fields before it are the file's. [config, end]
LoadJson(old, f) ==
  LET mtp == Field(f.mtp, 0)
      eos == Field(f.eos, << >>)
      numbers == [old EXCEPT !.layers = Field(f.layers, @),
                             !.interval = Field(f.interval, @),
                             !.sizes = Overlay(@, f.sizes),
                             !.gates = Overlay(@, f.gates)]
      ended == [numbers EXCEPT !.mtp = mtp, !.eos = UpToBad(eos, BadId)]
      derived == [ended EXCEPT !.sizes = Derived(@, f), !.layer_types = << >>]
      types == LayerTypes(f.layer_types, derived.layers, derived.interval)
      typed == [derived EXCEPT !.layer_types = UpToBad(types, "unknown")]
  IN IF ~f.readable THEN [config |-> old, end |-> "failed"]
     ELSE IF mtp \notin 0 .. MaxInt32 THEN [config |-> numbers, end |-> "failed"]
     ELSE IF ended.eos # eos THEN [config |-> ended, end |-> "failed"]
     ELSE IF CannotReserve(f.layer_types, derived.layers, derived.interval)
     THEN [config |-> derived, end |-> "threw"]
     ELSE [config |-> typed,
           end |-> IF typed.layer_types = types /\ ValidConfig(typed)
                   THEN "ok" ELSE "failed"]

\* What config.json settles, whatever the fields held before: the keys it gives
\* and those that follow from them. Another field may hold its initial value or
\* that of a file read earlier.
Settled(f) ==
  LET head == \/ "head_dim" \in DOMAIN f.sizes
              \/ /\ ~f.odd_head_dim
                 /\ {"hidden_size", "num_attention_heads"} \subseteq DOMAIN f.sizes
  IN DOMAIN f.sizes
     \cup (IF head THEN {"head_dim"} ELSE {})
     \cup (IF head /\ f.rotary # << >> THEN {"rope_head_dim"} ELSE {})
     \cup (IF f.rope_theta # << >> THEN {"rope_theta"} ELSE {})
Agrees(c, f, default) ==
  /\ \A key \in Settled(f) : c.sizes[key] = SizesRead(default.sizes, f)[key]
  /\ \A gate \in DOMAIN f.gates : c.gates[gate] = f.gates[gate]
  /\ c.layers = Field(f.layers, c.layers) /\ c.interval = Field(f.interval, c.interval)
  /\ c.mtp = Field(f.mtp, 0) /\ c.eos = Field(f.eos, << >>)

-----------------------------------------------------------------------------
\* parse_shard(): the header must be readable, every tensor have a known type,
\* lie within the data, and be as long as its shape says in 64 bits. A type
\* that is not even a string ("odd") makes the JSON library throw.
EntryIsValid(e, size) ==
  /\ e.dtype = "known"
  /\ e.begin <= e.end /\ e.end <= size
  /\ e.bytes % Word = e.end - e.begin
ShardParses(s) ==
  /\ s.state = "good"
  /\ \A name \in DOMAIN s.entries : EntryIsValid(s.entries[name], s.size)
ShardThrows(s) ==
  s.state = "good" /\ \E name \in DOMAIN s.entries : s.entries[name].dtype = "odd"
ShardFails(s) ==
  \/ s.state # "good"
  \/ \E name \in DOMAIN s.entries :
       s.entries[name].dtype # "odd" /\ ~EntryIsValid(s.entries[name], s.size)

\* open_model(): the index names the tensors and the shard of each; every
\* shard it names must parse and hold the tensors that the index puts there.
\* Without an index the one file names them. With several faults the order of
\* the names decides which is met first.
FilesOf(d) == IF d.indexed = "yes" THEN Range(d.weight_map) ELSE {"model"}
OpenThrows(d) == d.indexed # "bad" /\ \E s \in FilesOf(d) : ShardThrows(d.shards[s])
OpenFails(d) ==
  \/ d.indexed = "bad"
  \/ \E s \in FilesOf(d) : ShardFails(d.shards[s])
  \/ d.indexed = "yes" /\ \E name \in DOMAIN d.weight_map :
       LET s == d.shards[d.weight_map[name]] IN
       ~ShardThrows(s) /\ name \notin DOMAIN s.entries
OpenModel(d) ==
  /\ d.indexed # "bad"
  /\ IF d.indexed = "yes"
     THEN \A name \in DOMAIN d.weight_map :
            LET s == d.shards[d.weight_map[name]] IN
            ShardParses(s) /\ name \in DOMAIN s.entries
     ELSE ShardParses(d.shards["model"])

Tensors(d) ==
  IF d.indexed = "yes" THEN DOMAIN d.weight_map
  ELSE DOMAIN d.shards["model"].entries
InfoOf(d, name) ==
  d.shards[IF d.indexed = "yes" THEN d.weight_map[name] ELSE "model"].entries[name]

\* What there can be in a directory: offsets and sizes are unsigned, a list of
\* an unknown value or of a bad id can still be read, and a JSON object holds a
\* key at most once. The bytes that a shape asks for have no bound.
IsKey(key, values) == key \in Seq(values) /\ Len(key) <= 1
IsConfig(c) ==
  /\ c.readable \in BOOLEAN /\ c.odd_head_dim \in BOOLEAN
  /\ DOMAIN c.sizes \subseteq Sizes \ {"rope_head_dim"} /\ DOMAIN c.gates \subseteq Gates
  /\ c.sizes \in [DOMAIN c.sizes -> Int] /\ c.gates \in [DOMAIN c.gates -> BOOLEAN]
  /\ IsKey(c.rope_theta, Int) /\ IsKey(c.rotary, Int)
  /\ IsKey(c.layers, Int) /\ IsKey(c.interval, Int) /\ IsKey(c.mtp, Int)
  /\ IsKey(c.eos, Seq(Nat \cup {BadId}))
  /\ IsKey(c.layer_types, Seq({"full", "linear", "unknown"}))
IsShard(s) ==
  /\ s.size \in 0 .. Word - 1
  /\ \A name \in DOMAIN s.entries :
       LET e == s.entries[name] IN
       /\ e.dtype \in {"known", "unknown", "odd"}
       /\ e.begin \in Nat /\ e.end \in Nat /\ e.bytes \in Nat
IsName(name) ==
  /\ name = Of(name.layer, name.part)
  /\ \/ name.layer \in Nat /\ name.part \in {"norms", "attention", "linear", "mlp"}
     \/ name.layer = -1 /\ name.part \in {"embed", "norm", "lm_head", "mtp"}
IsDirectory(d) ==
  /\ IsConfig(d.config) /\ d.tokenizer.eos \in Seq(Nat \cup {BadId})
  /\ d.indexed \in {"yes", "no", "bad"}
  /\ FilesOf(d) \subseteq DOMAIN d.shards
  /\ \A s \in DOMAIN d.shards : IsShard(d.shards[s])
  /\ IsFiniteSet(Tensors(d))
  /\ \A name \in Tensors(d) :
       /\ IsName(name)
       /\ d.format[name] \in {"dense", "scaled", "unscaled", "torn"}

tensor_bytes(d, name) ==
  IF name \in Tensors(d) THEN InfoOf(d, name).end - InfoOf(d, name).begin ELSE 0
BytesOf(d, names) ==
  SumFunction([n \in names |-> tensor_bytes(d, n)])
layer_bytes(d, l) == BytesOf(d, {n \in Tensors(d) : n.layer = l})
\* Faulty variant: MTP tensors count although the configuration has no layers.
MtpBytesFound(d, mtp) == tensor_bytes(d, Model("mtp"))
mtp_bytes(d, mtp) == IF mtp <= 0 THEN 0 ELSE tensor_bytes(d, Model("mtp"))

\* SafeTensorLoader::load() of a plain tensor, of any element type; and
\* load_quantized(): dense, or FP8 with its scales. A format "torn" stands for
\* a group of which a tensor is missing or cannot be read.
PlainLoads(d, name) == name \in Tensors(d) /\ d.format[name] # "torn"
QuantizedLoads(d, name) ==
  name \in Tensors(d) /\ d.format[name] \in {"dense", "scaled"}

\* load_layer(): the tensors present decide between attention and linear
\* attention, the configuration must agree. Faulty variant: it need not.
LayerLoadsAsFound(d, c, l) ==
  /\ PlainLoads(d, Of(l, "norms"))
  /\ QuantizedLoads(d, Of(l, "attention")) # QuantizedLoads(d, Of(l, "linear"))
  /\ QuantizedLoads(d, Of(l, "mlp"))
LayerLoads(d, c, l) ==
  LET has_attention == Of(l, "attention") \in Tensors(d)
      has_linear == Of(l, "linear") \in Tensors(d)
      is_attention_layer == c.layer_types[l + 1] = "full"
  IN /\ PlainLoads(d, Of(l, "norms"))
     /\ has_attention # has_linear
     /\ is_attention_layer = has_attention
     /\ IF is_attention_layer THEN QuantizedLoads(d, Of(l, "attention"))
                              ELSE QuantizedLoads(d, Of(l, "linear"))
     /\ QuantizedLoads(d, Of(l, "mlp"))
KindFound(d, l) == IF Of(l, "attention") \in Tensors(d) THEN "full" ELSE "linear"

SharedLoads(d) ==
  \A part \in {"embed", "norm", "lm_head"} : PlainLoads(d, Model(part))
MtpLoads(d, c) == c.mtp > 0 /\ QuantizedLoads(d, Model("mtp"))

-----------------------------------------------------------------------------
\* QwenTokenizer::load() clears everything and then fills the vocabulary, the
\* end-of-sequence ids and the byte tables in this order. With an entry of
\* another type than it expects ("odd") it throws within the vocabulary.
LoadTokenizer(d, id, none) ==
  LET t == d.tokenizer
      ids == UpToBad(t.eos, BadId)
  IN IF t.state # "good"
     THEN [vocab |-> none, eos |-> << >>, bytes |-> FALSE]
     ELSE [vocab |-> id, eos |-> ids, bytes |-> ids = t.eos]

-----------------------------------------------------------------------------
\* What a directory must be to be loadable, independently of the order in
\* which the loader looks: its parts fit together and nothing is missing.
UsableConfig(c, default) ==
  LET interval == Field(c.interval, default.interval)
      layers == Field(c.layers, default.layers)
  IN /\ c.readable /\ SizesFit(SizesRead(default.sizes, c))
     /\ \A gate \in Gates : Overlay(default.gates, c.gates)[gate]
     /\ layers > 0 /\ interval > 0
     /\ \/ c.layer_types = << >> /\ layers <= MaxLayers
        \/ c.layer_types = <<Schedule(layers, interval)>>
     /\ \A i \in 1 .. Len(Field(c.eos, << >>)) : Field(c.eos, << >>)[i] # BadId
     /\ Field(c.mtp, 0) \in 0 .. MaxInt32

Needed(layers, interval, with_mtp) ==
  {Of(l, part) : l \in 0 .. layers - 1, part \in {"norms", "mlp"}}
  \cup {Of(l, IF KindAt(l, interval) = "full" THEN "attention" ELSE "linear") :
          l \in 0 .. layers - 1}
  \cup {Model(part) : part \in {"embed", "norm", "lm_head"}}
  \cup IF with_mtp THEN {Model("mtp")} ELSE {}
Unwanted(layers, interval) ==
  {Of(l, IF KindAt(l, interval) = "full" THEN "linear" ELSE "attention") :
     l \in 0 .. layers - 1}

\* Tensors are cut out of files that hold them, in a format that can be used.
\* That a tensor fills its place is known up to multiples of 2^64 bytes.
FilesHold(d, names) ==
  /\ d.indexed \in {"yes", "no"}
  /\ \A s \in FilesOf(d) :
       /\ d.shards[s].state = "good"
       /\ \A n \in DOMAIN d.shards[s].entries :
            LET e == d.shards[s].entries[n] IN
            /\ e.dtype = "known"
            /\ e.begin \in 0 .. e.end /\ e.end \in 0 .. d.shards[s].size
            /\ e.begin + (e.bytes % Word) = e.end
  /\ d.indexed = "yes" =>
       \A n \in DOMAIN d.weight_map : n \in DOMAIN d.shards[d.weight_map[n]].entries
  /\ names \subseteq Tensors(d)
  /\ \A n \in names :
       d.format[n] \in IF n.part \in {"norms", "embed", "norm", "lm_head"}
                       THEN {"dense", "scaled", "unscaled"}
                       ELSE {"dense", "scaled"}

Usable(d, default, with_mtp) ==
  LET layers == Field(d.config.layers, default.layers)
      interval == Field(d.config.interval, default.interval)
  IN /\ UsableConfig(d.config, default)
     /\ FilesHold(d, Needed(layers, interval, with_mtp))
     /\ Unwanted(layers, interval) \cap Tensors(d) = {}
     /\ with_mtp => Field(d.config.mtp, 0) > 0
     /\ d.tokenizer.state = "good"
     /\ \A i \in 1 .. Len(d.tokenizer.eos) : d.tokenizer.eos[i] # BadId
=============================================================================
