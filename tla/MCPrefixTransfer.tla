-------------------------- MODULE MCPrefixTransfer --------------------------
(* A small instance of the transfer of a prefix for TLC: blocks of two     *)
(* tokens, three blocks, two layers, two query heads over one KV head.     *)
EXTENDS PrefixTransfer

(* The peers differ from this engine in one respect each.  Some of them    *)
(* agree with it on the size of a tensor in bytes.                         *)
Engine ==
  [version |-> 1, model_id |-> "m", block_size |-> 2, num_layers |-> 2,
   num_kv_heads |-> 1, head_dim |-> 4, dtype |-> "BF16"]

SomePeers ==
  {Engine,
   [Engine EXCEPT !.dtype = "F16"],
   [Engine EXCEPT !.dtype = "U8"],
   [Engine EXCEPT !.num_kv_heads = 2, !.head_dim = 2],
   [Engine EXCEPT !.block_size = 4, !.head_dim = 2],
   [Engine EXCEPT !.num_layers = 1],
   [Engine EXCEPT !.model_id = "other"],
   [Engine EXCEPT !.version = 2]}

(* Two that share their first block, one that does not.                    *)
SomePrompts == {<<1, 2, 0>>, <<1, 2, 0, 0, 2>>, <<0, 1, 1, 2>>}

(* What a slot of this engine's pool can hold: its zeros at the start, or  *)
(* a column.                                                               *)
OwnItems ==
  {Empty} \cup
  {Column(Local, path) : path \in UNION {[1..n -> 0..2] : n \in 1..MaxSeqLen}}

SomeQueries == {-1, 1}

(* A score that goes up and down along the sequence and differs by head.   *)
SomeScore(q, item, g) ==
  IF item = Empty THEN 0 ELSE q * (Last(item[<<1, "k">>][3]) + g) - g
=============================================================================
