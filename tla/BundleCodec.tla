----------------------------- MODULE BundleCodec -----------------------------
(***************************************************************************)
(* The portable form of a prefix's KV blocks: KvBundle and KvBundleCodec   *)
(* of kv_cache/bundle.rs, and the checks an importer makes on a decoded    *)
(* bundle (import_remote_bundle of kv_cache/manager.rs and the first part  *)
(* of import_prefix_bundle of models/common/cache.rs).                     *)
(*                                                                         *)
(* A file is the frame of bundle.rs: magic, version and header length,     *)
(* the header, the payload, and how many bytes of all this are there.      *)
(* Sizes are counted in bytes; the payload itself is kept as the tensors   *)
(* it is cut into, in the order they were appended.  A tensor is one       *)
(* layer's K or V of one block: one cell per position, all heads.          *)
(***************************************************************************)
EXTENDS Integers, SequencesExt

CONSTANT HeaderBytes  \* length of the JSON header

ASSUME CodecAssumption == HeaderBytes \in Nat \ {0}

MAGIC == "FLKV"
VERSION == 1

(* magic, version: u16, header_len: u32.                                   *)
PREFIX == 4 + 2 + 4

(* from_candle: any other dtype is not representable.                      *)
BundleDTypes == {"F32", "F16", "BF16"}

SizeInBytes(dtype) == IF dtype = "F32" THEN 4 ELSE 2

(* What a pool looks like, as far as an importer compares it.              *)
Layout(m) == <<m.block_size, m.num_layers, m.num_kv_heads, m.head_dim, m.dtype>>

NumBlocksOf(meta) == meta.token_count \div meta.block_size

BytesPerTensor(meta) ==
  meta.num_kv_heads * meta.block_size * meta.head_dim * SizeInBytes(meta.dtype)

PayloadBytes(meta) == NumBlocksOf(meta) * meta.num_layers * 2 * BytesPerTensor(meta)

BlockAligned(meta) == meta.token_count % meta.block_size = 0

-----------------------------------------------------------------------------
(* encode: the header and then, block by block and layer by layer, K and V.*)
Encodable(bundle) ==
  /\ bundle.meta.block_size # 0
  /\ BlockAligned(bundle.meta)
  /\ Len(bundle.blocks) = NumBlocksOf(bundle.meta)
  /\ \A b \in DOMAIN bundle.blocks : Len(bundle.blocks[b]) = bundle.meta.num_layers

Encode(bundle) ==
  [magic |-> MAGIC,
   version |-> VERSION,
   header_len |-> HeaderBytes,
   meta |-> bundle.meta,
   payload |-> FlattenSeq([b \in DOMAIN bundle.blocks |->
                 FlattenSeq([l \in DOMAIN bundle.blocks[b] |->
                   <<bundle.blocks[b][l].k, bundle.blocks[b][l].v>>])]),
   len |-> PREFIX + HeaderBytes + PayloadBytes(bundle.meta)]

(* decode: every check, in the code's order.  Nothing is read before the   *)
(* length that covers it has been checked.                                 *)
HeaderEnd(file) == PREFIX + file.header_len

FrameIsRead(file) ==
  /\ file.len >= PREFIX
  /\ file.magic = MAGIC
  /\ file.version = VERSION
  /\ file.len >= HeaderEnd(file)

MetaIsSound(meta) ==
  /\ meta.block_size # 0
  /\ meta.token_count # 0 /\ BlockAligned(meta)
  /\ Len(meta.token_ids) = meta.token_count

PayloadIsWhole(file) == file.len - HeaderEnd(file) = PayloadBytes(file.meta)

(* Mutant of Decodes: the version number is skipped.                       *)
DecodesAnyVersion(file) ==
  /\ file.len >= HeaderEnd(file)
  /\ file.magic = MAGIC
  /\ MetaIsSound(file.meta)
  /\ PayloadIsWhole(file)

Decodes(file) == FrameIsRead(file) /\ MetaIsSound(file.meta) /\ PayloadIsWhole(file)

(* Mutant of Decode: the payload is read layer by layer, K blocks first.   *)
DecodeKFirst(file) ==
  LET meta == file.meta IN
  [meta |-> meta,
   blocks |-> [b \in 1 .. NumBlocksOf(meta) |->
     [l \in 1 .. meta.num_layers |->
        [k |-> file.payload[(b - 1) * 2 * meta.num_layers + l],
         v |-> file.payload[(b - 1) * 2 * meta.num_layers + meta.num_layers + l]]]]]

(* off runs over the payload one tensor at a time.                         *)
Decode(file) ==
  LET meta == file.meta
      off(b, l) == 2 * ((b - 1) * meta.num_layers + l - 1) IN
  [meta |-> meta,
   blocks |-> [b \in 1 .. NumBlocksOf(meta) |->
     [l \in 1 .. meta.num_layers |->
        [k |-> file.payload[off(b, l) + 1], v |-> file.payload[off(b, l) + 2]]]]]

-----------------------------------------------------------------------------
(* export_prefix_bundle refuses a count that is not block-aligned or not   *)
(* live, and a dtype without a portable form.                              *)
Exportable(engine, live, n) ==
  /\ n # 0 /\ n % engine.block_size = 0 /\ n <= live
  /\ engine.dtype \in BundleDTypes

(* The bundle of the first n tokens.  An item is what a pool holds for one *)
(* position: its K and V in every layer.                                   *)
BundleOf(engine, tokens, n, items) ==
  [meta |-> [model_id |-> engine.model_id,
             token_count |-> n,
             token_ids |-> SubSeq(tokens, 1, n),
             block_size |-> engine.block_size,
             num_layers |-> engine.num_layers,
             num_kv_heads |-> engine.num_kv_heads,
             head_dim |-> engine.head_dim,
             dtype |-> engine.dtype],
   blocks |-> [b \in 1 .. n \div engine.block_size |->
     [l \in 1 .. engine.num_layers |->
        [k |-> [j \in 1 .. engine.block_size |->
                  items[(b - 1) * engine.block_size + j][<<l, "k">>]],
         v |-> [j \in 1 .. engine.block_size |->
                  items[(b - 1) * engine.block_size + j][<<l, "v">>]]]]]]

(* What the blocks of a bundle put at each position of the pool.           *)
ItemsOf(bundle) ==
  LET bs == bundle.meta.block_size
      tensors(pos) == bundle.blocks[((pos - 1) \div bs) + 1]
      at(pos) == ((pos - 1) % bs) + 1 IN
  [pos \in 1 .. bundle.meta.token_count |->
     [lk \in (1 .. bundle.meta.num_layers) \X {"k", "v"} |->
        IF lk[2] = "k" THEN tensors(pos)[lk[1]].k[at(pos)]
        ELSE tensors(pos)[lk[1]].v[at(pos)]]]

(* Mutant of Importable: two-byte elements are taken for one another.      *)
ImportableBySize(bundle, engine, prompt) ==
  LET meta == bundle.meta IN
  /\ meta.model_id = engine.model_id
  /\ <<meta.block_size, meta.num_layers, meta.num_kv_heads, meta.head_dim>>
       = <<engine.block_size, engine.num_layers, engine.num_kv_heads, engine.head_dim>>
  /\ SizeInBytes(meta.dtype) = SizeInBytes(engine.dtype)
  /\ meta.token_count <= Len(prompt)
  /\ SubSeq(prompt, 1, meta.token_count) = meta.token_ids

(* import_remote_bundle and import_prefix_bundle, up to the first write.   *)
Importable(bundle, engine, prompt) ==
  LET meta == bundle.meta IN
  /\ meta.model_id = engine.model_id
  /\ Layout(meta) = Layout(engine)
  /\ meta.token_count # 0 /\ BlockAligned(meta)
  /\ Len(meta.token_ids) = meta.token_count
  /\ meta.token_count <= Len(prompt)
  /\ SubSeq(prompt, 1, meta.token_count) = meta.token_ids
  /\ Len(bundle.blocks) = NumBlocksOf(meta)
=============================================================================
