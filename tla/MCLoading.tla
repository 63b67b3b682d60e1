------------------------------ MODULE MCLoading ------------------------------
(* Sound directories of different shape, and the first of them with one      *)
(* thing wrong or at a boundary at a time; three GPUs, and requests that use *)
(* one, two or more than a model has layers. Configurations that settle all  *)
(* fields, and some that leave fields to what was there.                     *)
EXTENDS Loading

Gpu(n) == [name |-> n, backend |-> "hip", is_gpu |-> TRUE]
MCMachine == <<Cpu, Gpu("hip0"), Gpu("hip1"), Gpu("hip2")>>
MCOptions ==
  {[backend |-> "hip", max_devices |-> 0, enable_mtp |-> FALSE],
   [backend |-> "gpu", max_devices |-> 2, enable_mtp |-> TRUE],
   [backend |-> "hip", max_devices |-> 8, enable_mtp |-> FALSE],
   [backend |-> "cpu", max_devices |-> 1, enable_mtp |-> FALSE],
   [backend |-> "cuda", max_devices |-> 1, enable_mtp |-> TRUE]}
MCDefaultConfig ==
  [layers |-> 4, interval |-> 4, mtp |-> 0, eos |-> << >>, layer_types |-> << >>,
   gates |-> [g \in Gates |-> TRUE],
   sizes |-> [s \in Sizes |->
                CASE s = "hidden_size" -> 24
                  [] s \in {"num_attention_heads", "linear_num_value_heads"} -> 6
                  [] s \in {"num_key_value_heads", "linear_num_key_heads"} -> 3
                  [] s = "head_dim" -> 8
                  [] s = "rope_head_dim" -> 2
                  [] OTHER -> 1]]

\* A file whose tensors lie one behind the other, each of one byte more than
\* the number of its layer.
Layout(names) ==
  LET size(n) == n.layer + 2
      before(n, m) == \/ n.layer < m.layer
                      \/ n.layer = m.layer /\ n # m
                         /\ (CHOOSE p \in {n, m} : TRUE) = n
      begin(m) == SumFunction([n \in {x \in names : before(x, m)} |-> size(n)])
  IN [state |-> "good", size |-> SumFunction([n \in names |-> size(n)]),
      entries |-> [n \in names |-> [begin |-> begin(n), end |-> begin(n) + size(n),
                                    bytes |-> size(n), dtype |-> "known"]]]
NoFile == [state |-> "absent", size |-> 0, entries |-> << >>]

Names(layers, interval, with_mtp) == Needed(layers, interval, with_mtp)
BigNames == Names(3, 2, TRUE)
Front == {n \in BigNames : n.layer <= 0}

\* Every size but head_dim, which is 16 then, and half of it rotary.
BigSizes ==
  [s \in Sizes \ {"rope_head_dim", "head_dim", "rope_theta"} |->
     CASE s = "hidden_size" -> 32
       [] s \in {"num_attention_heads", "num_key_value_heads"} -> 2
       [] s = "linear_num_value_heads" -> 4
       [] OTHER -> 2]

Big ==
  [config |-> [readable |-> TRUE, sizes |-> BigSizes, odd_head_dim |-> FALSE,
               gates |-> [g \in Gates |-> TRUE], rope_theta |-> <<5>>, rotary |-> <<2>>,
               layers |-> <<3>>, interval |-> <<2>>,
               mtp |-> <<1>>, eos |-> <<<<7, 8>>>>,
               layer_types |-> <<<<"linear", "full", "linear">>>>],
   indexed |-> "yes",
   weight_map |-> [n \in BigNames |-> IF n \in Front THEN "a" ELSE "b"],
   shards |-> [s \in {"a", "b", "model"} |->
                 IF s = "a" THEN Layout(Front)
                 ELSE IF s = "b" THEN Layout(BigNames \ Front) ELSE NoFile],
   format |-> [n \in BigNames |->
                 IF n.part \in {"attention", "mlp"} THEN "scaled" ELSE "dense"],
   tokenizer |-> [state |-> "good", eos |-> <<7>>]]

SmallNames == Names(2, 4, FALSE)
Small ==
  [config |-> [readable |-> TRUE, sizes |-> [s \in {"head_dim"} |-> 12],
               odd_head_dim |-> FALSE, gates |-> << >>, rope_theta |-> << >>,
               rotary |-> << >>, layers |-> <<2>>, interval |-> << >>,
               mtp |-> << >>, eos |-> << >>, layer_types |-> << >>],
   indexed |-> "no", weight_map |-> << >>,
   shards |-> [s \in {"model"} |-> Layout(SmallNames)],
   format |-> [n \in SmallNames |-> "dense"],
   tokenizer |-> [state |-> "good", eos |-> << >>]]

Without(n) ==
  [Big EXCEPT !.weight_map = [m \in BigNames \ {n} |-> Big.weight_map[m]],
              !.format = [m \in BigNames \ {n} |-> Big.format[m]],
              !.shards[Big.weight_map[n]] = Layout(DOMAIN @.entries \ {n})]
WithToo(n) ==
  [Big EXCEPT !.weight_map = [m \in BigNames \cup {n} |-> IF m = n THEN "b" ELSE Big.weight_map[m]],
              !.format = [m \in BigNames \cup {n} |-> IF m = n THEN "dense" ELSE Big.format[m]],
              !.shards["b"] = Layout(DOMAIN @.entries \cup {n})]

Directories ==
  [big |-> Big, small |-> Small,
   odd_head |-> [Big EXCEPT !.config.odd_head_dim = TRUE],
   zero_eps |-> [Big EXCEPT !.config.sizes["rms_norm_eps"] = 0],
   odd_rope |-> [Big EXCEPT !.config.sizes["hidden_size"] = 29],
   long_rope |-> [Big EXCEPT !.config.rotary = <<5>>],
   uneven |-> [Big EXCEPT !.config.sizes["num_key_value_heads"] = 4],
   no_gate |-> [Big EXCEPT !.config.gates["attn_output_gate"] = FALSE],
   many_mtp |-> [Big EXCEPT !.config.mtp = <<MaxInt32 + 1>>],
   negative_layers |-> [Big EXCEPT !.config.layers = <<-1>>, !.config.layer_types = << >>],
   unreadable |-> [Big EXCEPT !.config.readable = FALSE],
   negative_mtp |-> [Big EXCEPT !.config.mtp = <<-1>>],
   bad_eos |-> [Big EXCEPT !.config.eos = <<<<7, BadId>>>>],
   unknown_type |-> [Big EXCEPT !.config.layer_types = <<<<"linear", "unknown", "full">>>>],
   short_schedule |-> [Big EXCEPT !.config.layer_types = <<<<"linear", "full">>>>],
   no_interval |-> [Big EXCEPT !.config.interval = <<0>>],
   bad_index |-> [Big EXCEPT !.indexed = "bad"],
   no_shard |-> [Big EXCEPT !.shards["b"] = NoFile],
   wrong_shard |-> [Big EXCEPT !.weight_map[Model("norm")] = "b"],
   past_end |-> [Big EXCEPT !.shards["a"].size = @ - 1],
   wrapped |-> [Big EXCEPT !.shards["a"].entries[Model("embed")].bytes = @ + Word],
   too_short |-> [Big EXCEPT !.shards["a"].entries[Model("embed")].bytes = @ + 1],
   odd_type |-> [Big EXCEPT !.shards["a"].entries[Model("embed")].dtype = "odd"],
   two_faults |-> [Big EXCEPT !.shards["a"].entries[Model("embed")].dtype = "odd",
                              !.shards["b"].entries[Of(2, "mlp")].dtype = "unknown"],
   both |-> WithToo(Of(1, "linear")),
   neither |-> Without(Of(2, "linear")),
   other_kind |-> [Big EXCEPT !.config.layer_types = << >>, !.config.interval = <<3>>],
   no_mlp |-> Without(Of(2, "mlp")),
   unscaled |-> [Big EXCEPT !.format[Of(1, "mlp")] = "unscaled"],
   torn |-> [Big EXCEPT !.format[Of(0, "norms")] = "torn"],
   no_head |-> Without(Model("lm_head")),
   no_mtp |-> Without(Model("mtp")),
   mtp_off |-> [Big EXCEPT !.config.mtp = <<0>>],
   no_tokenizer |-> [Big EXCEPT !.tokenizer.state = "absent"],
   odd_tokenizer |-> [Big EXCEPT !.tokenizer.state = "odd"],
   bad_generation |-> [Big EXCEPT !.tokenizer.eos = <<7, BadId>>]]

MCDirectory == DOMAIN Directories
MCContent(d) == Directories[d]
=============================================================================
