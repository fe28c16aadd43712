--------------------------- MODULE PrefixTransfer ---------------------------
(***************************************************************************)
(* A prefix from the pool of one engine to the attention of another: a     *)
(* peer exports and encodes the KV of a prompt's reusable prefix, the file *)
(* waits in the store, this engine fetches it for a request under the same *)
(* key, decodes and checks it, writes its blocks into a pool whose free    *)
(* stack may be in any order, runs the rest of the prompt and then decodes.*)
(*                                                                         *)
(* The key names a model by its directory and a prefix by a hash, so the   *)
(* peer may run another model, dtype, shape or release under the same key; *)
(* and the file may be cut or replaced while it is stored.  What the       *)
(* engine does after a refusal is in module KvSession.                     *)
(***************************************************************************)
EXTENDS PagedAttention, BundleCodec

CONSTANTS
  Local,      \* this engine: version, model_id and the fields of its layout
  Peers,      \* the engines that publish, alike or not
  Prompts,    \* token sequences
  MaxDecoded  \* tokens decoded after the prompt, at most

(* An engine's release and model, and what its pool looks like.            *)
EngineConfigs ==
  [version : Nat, model_id : STRING, block_size : Nat \ {0}, num_layers : Nat \ {0},
   num_kv_heads : Nat \ {0}, head_dim : Nat \ {0}, dtype : STRING]

ASSUME TransferAssumption ==
  /\ Peers \cup {Local} \subseteq EngineConfigs
  /\ Local.block_size = BlockSize /\ Local.num_kv_heads = NumKvHeads
  /\ Local.version = VERSION
  /\ Prompts \subseteq Seq(Nat)
  /\ MaxDecoded \in Nat

VARIABLES
  stage,     \* where the file and the request stand
  file,      \* the object in the store
  origin,    \* history: who published which prefix, and whether it is whole
  importer,  \* this engine's KvCache
  prompt,    \* the request's prompt
  tokens     \* the prompt and what was decoded

requestVars == <<importer, prompt, tokens>>
transferVars == <<stage, file, origin, requestVars, attnVars>>

-----------------------------------------------------------------------------
(* The KV an engine computes for the last token of a path, in each layer.  *)
Column(engine, path) ==
  [lk \in (1 .. engine.num_layers) \X {"k", "v"} |-> <<engine, lk, path>>]

ColumnsOf(engine, toks) == [pos \in 1 .. Len(toks) |-> Column(engine, SubSeq(toks, 1, pos))]

(* reusable_token_count under the engine's own block size.                 *)
ReusableTokens(engine, toks) ==
  IF toks = Empty THEN 0
  ELSE ((Len(toks) - 1) \div engine.block_size) * engine.block_size

(* finish: export and encode; a peer of another release writes its own     *)
(* version number.                                                         *)
Publish(peer, p) ==
  LET n == ReusableTokens(peer, p)
      bundle == BundleOf(peer, p, n, ColumnsOf(peer, p)) IN
  /\ stage = "empty"
  /\ Exportable(peer, Len(p), n)
  /\ Encodable(bundle)
  /\ file' = [Encode(bundle) EXCEPT !.version = peer.version]
  /\ origin' = [peer |-> peer, prefix |-> SubSeq(p, 1, n), whole |-> TRUE]
  /\ stage' = "stored"
  /\ UNCHANGED <<requestVars, attnVars>>

(* The object is cut short, padded, or is no bundle at all.                *)
CutPoints(f) == {0, PREFIX - 1, PREFIX, HeaderEnd(f) - 1, HeaderEnd(f), f.len - 1, f.len + 1}

Damage ==
  /\ stage = "stored"
  /\ origin.whole
  /\ \/ \E n \in CutPoints(file) : file' = [file EXCEPT !.len = n]
     \/ file' = [file EXCEPT !.magic = "other"]
  /\ origin' = [origin EXCEPT !.whole = FALSE]
  /\ UNCHANGED <<stage, requestVars, attnVars>>

(* KvSession::import_remote_bundle for a request with a reusable prefix.   *)
Accepts(f, p) == Decodes(f) /\ Importable(Decode(f), Local, p)

Fetching(p) ==
  /\ stage = "stored"
  /\ ReusableTokens(Local, p) > 0
  /\ prompt' = p
  /\ tokens' = p
  /\ UNCHANGED <<file, origin, attnVars>>

Import(p) ==
  LET items == ItemsOf(Decode(file)) IN
  /\ Fetching(p)
  /\ Accepts(file, p)
  /\ ImportFits(importer, items)
  /\ importer' = ImportPrefixBundle(importer, p, items)
  /\ stage' = "imported"

Refuse(p) ==
  /\ Fetching(p)
  /\ ~Accepts(file, p)
  /\ stage' = "refused"
  /\ UNCHANGED importer

(* CausalLM::forward of the last n tokens: reserve their slots, write      *)
(* their KV and call the attention kernel with their queries.              *)
ForwardLocal(toks, n) ==
  LET reserved == AllocateKv(importer, n)
      start == reserved.len - n
      slots == [i \in 1..n |-> Slot(reserved, start + i - 1)]
      items == [i \in 1..n |-> Column(Local, SubSeq(toks, 1, start + i))]
      written == [reserved EXCEPT !.pool = PoolWrite(@, slots, items)] IN
  /\ CanAllocateKv(importer, n)
  /\ importer' = written
  /\ \E q \in [RowsOf(n) -> Queries] : Call(written, n, q)

(* prefill_suffix after the import.                                        *)
PrefillSuffix ==
  /\ stage = "imported"
  /\ ForwardLocal(tokens, Len(prompt) - importer.len)
  /\ stage' = "attending"
  /\ UNCHANGED <<file, origin, prompt, tokens>>

Attend ==
  /\ stage = "attending"
  /\ FoldBlock
  /\ UNCHANGED <<stage, file, origin, requestVars>>

DecodeToken(t) ==
  /\ stage = "attending"
  /\ kv_start = cache.len
  /\ Len(tokens) - Len(prompt) < MaxDecoded
  /\ tokens' = Append(tokens, t)
  /\ ForwardLocal(tokens', 1)
  /\ UNCHANGED <<stage, file, origin, prompt>>

-----------------------------------------------------------------------------
TransferInit ==
  /\ stage = "empty"
  /\ file = [len |-> 0]
  /\ origin = [whole |-> FALSE]
  /\ \E order \in SetToSeqs(Blocks) : importer = [NewKvCache EXCEPT !.free = order]
  /\ prompt = Empty
  /\ tokens = Empty
  /\ AttnInit

TransferNext ==
  \/ \E peer \in Peers, p \in Prompts : Publish(peer, p)
  \/ Damage
  \/ \E p \in Prompts : Import(p)
  \/ \E p \in Prompts : Refuse(p)
  \/ PrefillSuffix
  \/ Attend
  \/ \E t \in {p[1] : p \in Prompts} : DecodeToken(t)

TransferSpec == TransferInit /\ [][TransferNext]_transferVars

-----------------------------------------------------------------------------
(* The file, the request and the importer's accounting keep their types.   *)
TransferTypeOK ==
  /\ stage \in {"empty", "stored", "imported", "refused", "attending"}
  /\ file.len \in Nat
  /\ importer.len \in 0 .. TableCapacity(importer)
  /\ \A b \in Blocks : (b \in ToSet(importer.free)) # (b \in ToSet(importer.blocks))
  /\ Len(tokens) \in Len(prompt) .. Len(prompt) + MaxDecoded

(* bundle.rs:3-5, cache.rs:233-235: a file is imported exactly when it is  *)
(* whole and comes from an engine of the same release, model, layout and   *)
(* dtype for a prefix of the prompt.  A peer that merely shares the key is *)
(* refused, and a good bundle is never turned into a miss.                 *)
AcceptedIffWholeAndAlike ==
  stage \in {"imported", "attending", "refused"} =>
    (stage # "refused" <=> /\ origin.whole
                           /\ origin.peer = Local
                           /\ IsPrefix(origin.prefix, prompt))

(* manager.rs:149-150, "correctness never depends on the remote cache":    *)
(* after encoding, storing, decoding and writing into blocks taken in any  *)
(* order, every live position of the importer holds, in every layer, the K *)
(* and the V it would have computed itself for that prefix.                *)
HoldsOwnKv ==
  stage = "imported" =>
    \A pos \in 0 .. importer.len - 1 :
      importer.pool[Slot(importer, pos)] = Column(Local, SubSeq(prompt, 1, pos + 1))
=============================================================================
