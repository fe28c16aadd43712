----------------------------- MODULE KvSession ------------------------------
(***************************************************************************)
(* The life of a request in an engine: Engine::generate of engine.rs with  *)
(* the KvSession of kv_cache/manager.rs, over the engine's KvCache and a   *)
(* remote store of KV bundles.                                             *)
(*                                                                         *)
(* The engine holds its cache lock from the first step of a prefill to the *)
(* end of the generation, so requests do not overlap in the cache; the     *)
(* remote store is shared with other engines and may change at any step.   *)
(* The remote store answers as module KvObjectStore says: a miss or a      *)
(* bundle that was published.  Sampling is a free choice of the next token *)
(* and of when to stop.  A step whose calls cannot be observed in between  *)
(* is one action; a failing call ends it where the code returns.           *)
(***************************************************************************)
EXTENDS KvCache

CONSTANTS
  Prompts,     \* token sequences of the requests
  NextTokens,  \* tokens the sampler may pick
  MaxTokens,   \* params.max_tokens
  MinBlocks    \* PublishPolicy.min_blocks

(* Every rendered conversation ends in the assistant's header              *)
(* (ChatTemplate::render of tokenizer.rs), so no prompt is empty.          *)
ASSUME SessionAssumption ==
  /\ MaxTokens \in Nat /\ MinBlocks \in Nat
  /\ \A p \in Prompts : p \in Seq(ToSet(p)) /\ p # Empty

VARIABLES
  kv,         \* the engine's KvCache
  phase,      \* where the current request stands
  seq,        \* its tokens: the prompt and what was generated
  prompt,     \* its prompt
  reused,     \* reused_prefix_tokens
  publishing, \* bundles of finished requests on their way to the store
  remote,     \* bundles in the remote store
  local_fits, \* history: the prefill would have fit with the local match
  imported,   \* history: a bundle was imported for the current request
  outcome     \* history: how the last request ended

sessionVars == <<kv, phase, seq, prompt, reused, publishing, remote, local_fits, imported, outcome>>
storeVars == <<publishing, remote>>
requestVars == <<seq, prompt, local_fits, outcome>>
historyVars == <<local_fits, imported>>

-----------------------------------------------------------------------------
(* reusable_token_count: block-aligned and strictly less than the prompt.  *)
ReusableTokenCount(n) == IF n = 0 THEN 0 ELSE ((n - 1) \div BlockSize) * BlockSize

ReusablePrefix == SubSeq(prompt, 1, ReusableTokenCount(Len(prompt)))

ShouldStore ==
  /\ Len(prompt) >= MinBlocks * BlockSize
  /\ Len(ReusablePrefix) > 0
  /\ reused < Len(ReusablePrefix)

Bundle(tokens, items) == [tokens |-> tokens, items |-> items]

(* The bundle another engine publishes for a prefix.                       *)
ExactBundle(tokens) == Bundle(tokens, [i \in 1 .. Len(tokens) |-> KvOf(tokens, i - 1)])

Fresh(c, tokens) == MatchPrefix(ResetSequence(c), tokens)

-----------------------------------------------------------------------------
(* prefill, first part: reset, match locally, and go on to the remote      *)
(* store when the prompt has a reusable prefix to ask for.                 *)
StartPrefill(p) ==
  LET matched == Fresh(kv, p) IN
  /\ phase = "idle"
  /\ kv' = matched
  /\ seq' = p
  /\ prompt' = p
  /\ reused' = matched.len
  /\ phase' = IF ReusableTokenCount(Len(p)) > 0 THEN "fetch" ELSE "suffix"
  /\ local_fits' = CanAllocateKv(matched, Len(p) - matched.len)
  /\ imported' = FALSE
  /\ UNCHANGED <<storeVars, outcome>>

(* get_object misses or fails, or the local match already covers it all.   *)
FetchNothing ==
  /\ phase = "fetch"
  /\ phase' = "suffix"
  /\ UNCHANGED <<kv, reused, imported, storeVars, requestVars>>

Importing(bundle) ==
  /\ phase = "fetch"
  /\ bundle.tokens = ReusablePrefix
  /\ reused < Len(ReusablePrefix)
  /\ phase' = "suffix"
  /\ UNCHANGED <<storeVars, requestVars>>

ImportSucceeds(bundle) ==
  /\ Importing(bundle)
  /\ ImportFits(kv, bundle.items)
  /\ kv' = ImportPrefixBundle(kv, prompt, bundle.items)
  /\ reused' = Len(bundle.items)
  /\ imported' = TRUE

(* Any failed import is followed by a reset and a new local match.         *)
FallBack(c) ==
  /\ kv' = Fresh(c, prompt)
  /\ reused' = kv'.len
  /\ UNCHANGED imported

(* Undecodable, of another model or of another shape: refused untouched.   *)
ImportRefused(bundle) == Importing(bundle) /\ FallBack(kv)

(* The check for free blocks comes after the sequence was reset.           *)
ImportHasNoRoom(bundle) ==
  /\ Importing(bundle)
  /\ ~ImportFits(kv, bundle.items)
  /\ FallBack(ResetSequence(kv))

ImportBreaks(bundle, n) ==
  /\ Importing(bundle)
  /\ ImportFits(kv, bundle.items)
  /\ n <= Len(bundle.items) \div BlockSize
  /\ FallBack(ImportFailsMidway(kv, bundle.items, n))

(* prefill, second part: run the suffix through the network, then register *)
(* every full block of the prompt.                                         *)
PrefillSuffix ==
  LET n == Len(prompt) - reused IN
  /\ phase = "suffix"
  /\ n > 0
  /\ CanAllocateKv(kv, n)
  /\ kv' = RegisterPrefix(Forward(kv, seq, n), prompt)
  /\ phase' = "decode"
  /\ UNCHANGED <<reused, imported, storeVars, requestVars>>

(* generate returns the error; the table keeps what was allocated.         *)
PrefillFails ==
  LET n == Len(prompt) - reused IN
  /\ phase = "suffix"
  /\ n <= 0 \/ ~CanAllocateKv(kv, n)
  /\ kv' = IF n <= 0 THEN kv ELSE AllocateKvFails(kv, n)
  /\ phase' = "idle"
  /\ outcome' = "prefill failed"
  /\ UNCHANGED <<reused, storeVars, seq, prompt, historyVars>>

(* One iteration of the decode loop: a token is chosen and, be it the last *)
(* one, run through the network.                                           *)
Decode(t) ==
  /\ phase = "decode"
  /\ Len(seq) - Len(prompt) < MaxTokens
  /\ CanAllocateKv(kv, 1)
  /\ seq' = Append(seq, t)
  /\ kv' = Forward(kv, seq', 1)
  /\ UNCHANGED <<phase, prompt, reused, storeVars, historyVars, outcome>>

DecodeFails ==
  /\ phase = "decode"
  /\ Len(seq) - Len(prompt) < MaxTokens
  /\ ~CanAllocateKv(kv, 1)
  /\ kv' = AllocateKvFails(kv, 1)
  /\ phase' = "idle"
  /\ outcome' = "decode failed"
  /\ UNCHANGED <<reused, storeVars, seq, prompt, historyVars>>

(* An end-of-sequence token, a stop string or the token limit: finish      *)
(* exports the reusable prefix if the policy says so, and the cache lock   *)
(* is released.                                                            *)
Finish ==
  LET bundle == Bundle(ReusablePrefix, ExportPrefix(kv, Len(ReusablePrefix))) IN
  /\ phase = "decode"
  /\ phase' = "idle"
  /\ publishing' = IF ShouldStore THEN publishing \cup {bundle} ELSE publishing
  /\ outcome' = "done"
  /\ UNCHANGED <<kv, reused, remote, seq, prompt, historyVars>>

(* publish_best_effort, outside the lock: the next request may have begun. *)
PublishBestEffort(bundle) ==
  /\ publishing' = publishing \ {bundle}
  /\ remote' \in {remote, remote \cup {bundle}}
  /\ UNCHANGED <<kv, phase, reused, imported, requestVars>>

(* The escape hatch clear_prefix_cache; no code of the server calls it.    *)
ClearCache(order) ==
  /\ phase = "idle"
  /\ kv' = ClearPrefixCache(kv, order)
  /\ UNCHANGED <<phase, reused, imported, storeVars, requestVars>>

(* The rest of the world: another engine publishes the reusable prefix of  *)
(* some prompt, or the cluster loses an object.                            *)
OtherEnginePublishes(p) ==
  LET n == ReusableTokenCount(Len(p)) IN
  /\ n > 0
  /\ remote' = remote \cup {ExactBundle(SubSeq(p, 1, n))}
  /\ UNCHANGED <<kv, phase, reused, imported, publishing, requestVars>>

RemoteLoses(bundle) ==
  /\ remote' = remote \ {bundle}
  /\ UNCHANGED <<kv, phase, reused, imported, publishing, requestVars>>

-----------------------------------------------------------------------------
SessionInit ==
  /\ kv = NewKvCache
  /\ phase = "idle"
  /\ seq = Empty
  /\ prompt = Empty
  /\ reused = 0
  /\ publishing = {}
  /\ remote = {}
  /\ local_fits = TRUE
  /\ imported = FALSE
  /\ outcome = "none"

RequestStep ==
  \/ \E p \in Prompts : StartPrefill(p)
  \/ FetchNothing
  \/ \E b \in remote : ImportSucceeds(b)
  \/ \E b \in remote : ImportRefused(b)
  \/ \E b \in remote : ImportHasNoRoom(b)
  \/ \E b \in remote, n \in 0 .. NumBlocks : ImportBreaks(b, n)
  \/ PrefillSuffix
  \/ PrefillFails
  \/ \E t \in NextTokens : Decode(t)
  \/ DecodeFails
  \/ Finish

SessionNext ==
  \/ RequestStep
  \/ \E b \in publishing : PublishBestEffort(b)
  \/ \E order \in DrainOrders(kv) : ClearCache(order)
  \/ \E p \in Prompts : OtherEnginePublishes(p)
  \/ \E b \in remote : RemoteLoses(b)

SessionSpec == SessionInit /\ [][SessionNext]_sessionVars

-----------------------------------------------------------------------------
(* Properties.                                                             *)

(* The cache and the request keep their types.                             *)
SessionTypeOK ==
  /\ ToSet(kv.free) \subseteq Blocks
  /\ kv.ref_counts \in [Blocks -> Nat]
  /\ ToSet(kv.blocks) \subseteq Blocks
  /\ \A p \in DOMAIN kv.registry : kv.registry[p] \in Blocks
  /\ kv.len \in 0 .. TableCapacity(kv)
  /\ phase \in {"idle", "fetch", "suffix", "decode"}
  /\ reused \in 0 .. NumBlocks * BlockSize
  /\ outcome \in {"none", "done", "prefill failed", "decode failed"}

(* Block accounting: the reference count of a block is the number of table *)
(* places and registry entries that hold it, and the free stack holds each *)
(* unreferenced block once.  No path through matching, importing, failing, *)
(* rolling back and resetting leaks a block, frees one twice or hands out  *)
(* one that is still held.                                                 *)
RefCountsExact ==
  \A b \in Blocks :
    /\ kv.ref_counts[b] = References(kv, b)
    /\ Cardinality({i \in 1 .. NumFree(kv) : kv.free[i] = b}) =
         (IF References(kv, b) = 0 THEN 1 ELSE 0)

(* A sequence never maps two logical blocks to one physical block, and the *)
(* registry never serves one block for two prefixes.                       *)
BlocksNotShared ==
  /\ IsInjective(kv.blocks)
  /\ \A p, q \in DOMAIN kv.registry : kv.registry[p] = kv.registry[q] => p = q

(* Cached blocks are never reserved for new tokens: the slots a forward    *)
(* pass reserves lie in blocks that only the current sequence references,  *)
(* so reuse needs no copy-on-write.                                        *)
ReservesOnlyPrivateBlocks ==
  [][\A pos \in kv.len .. kv'.len - 1 :
       phase \in {"suffix", "decode"} /\ kv'.len > kv.len =>
         BlockAt(kv', pos \div BlockSize) \notin {kv.registry[p] : p \in DOMAIN kv.registry}]_sessionVars

(* The registry is closed under prefixes: whenever a block of a path is    *)
(* cached so are all blocks before it, so a match never stops short of a   *)
(* block that is cached.                                                   *)
RegistryPrefixClosed ==
  \A p \in DOMAIN kv.registry :
    \A b \in 0 .. Len(p) \div BlockSize - 1 : PathOf(p, b) \in DOMAIN kv.registry

(* cache.rs:110-111: a local match or an import "always leaves" a suffix   *)
(* to run, whose last row is the logits of the last prompt token; and what *)
(* the session calls reused is exactly what is live in the cache.          *)
SuffixRemains ==
  phase \in {"fetch", "suffix"} => reused < Len(prompt) /\ kv.len = reused

(* During decoding the cache holds exactly the tokens of the sequence, and *)
(* every position is backed by a block.                                    *)
CacheTracksSequence ==
  phase = "decode" => kv.len = Len(seq) /\ TableCapacity(kv) >= Len(seq)

(* cache.rs:69, write_current: "Write the trailing seq_len tokens of this  *)
(* batch into their reserved slots".  Attention reads at every position of *)
(* the sequence the KV of that position.                                   *)
AttentionReadsOwnKv == phase = "decode" => GathersExactly(kv, seq)

(* manager.rs:149-150: "Any remote decode/import failure ... falls back to *)
(* the local/cold path".  A prompt whose prefill fits with the local match *)
(* alone is never failed by a remote store that misses, nor by a bundle    *)
(* that is refused, finds no room or breaks half-way.  (A bundle that is   *)
(* imported in full can fail it: the import holds blocks of its own.)      *)
FailedImportCostsNothing ==
  phase = "idle" /\ outcome = "prefill failed" /\ local_fits => imported
=============================================================================
