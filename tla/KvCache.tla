------------------------------ MODULE KvCache -------------------------------
(***************************************************************************)
(* The engine's paged KV cache: BlockAllocator, BlockTable and PagedKvPool *)
(* of models/common/paged.rs, PrefixRegistry of models/common/prefix.rs    *)
(* and the KvCache of models/common/cache.rs that owns one of each.        *)
(*                                                                         *)
(* A KvCache is a value here, and each method an operator from the value   *)
(* before the call to the value after it: several are called under one     *)
(* lock by one step of a request (module KvSession).                       *)
(*                                                                         *)
(* Abstractions.  The K and V of a position depend on the tokens up to and *)
(* including it, so a slot holds that token prefix; all layers behave the  *)
(* same and are one.  A chained block hash identifies the token path from  *)
(* position 0, so the registry is keyed by the path (no collisions).       *)
(* Positions and slots count from 0, as in the code; sequences from 1.     *)
(***************************************************************************)
EXTENDS Integers, SequencesExt

CONSTANTS
  BlockSize,   \* BLOCK_SIZE
  MaxSeqLen,   \* cfg.max_seq_len
  TellKvApart  \* whether the KV of different positions is told apart: block
               \* accounting reads no KV, so its runs can do without

ASSUME KvCacheAssumption ==
  /\ BlockSize \in Nat \ {0}
  /\ MaxSeqLen \in Nat \ {0}
  /\ TellKvApart \in BOOLEAN

CeilDiv(a, b) == (a + b - 1) \div b

NumBlocks == CeilDiv(MaxSeqLen, BlockSize)
Blocks == 0 .. NumBlocks - 1
PoolSlots == 0 .. NumBlocks * BlockSize - 1

Empty == << >>

(* free is a stack with its top at the end: block 0 is handed out first.   *)
NewKvCache ==
  [free |-> [i \in 1..NumBlocks |-> NumBlocks - i],
   ref_counts |-> [b \in Blocks |-> 0],
   blocks |-> Empty,
   len |-> 0,
   registry |-> [path \in {} |-> 0],
   pool |-> [s \in PoolSlots |-> Empty]]

-----------------------------------------------------------------------------
(* BlockAllocator.                                                         *)

NumFree(c) == Len(c.free)

(* The n blocks that n calls of allocate pop.                              *)
TopOfStack(c, n) == Reverse(SubSeq(c.free, NumFree(c) - n + 1, NumFree(c)))

(* Mutant of AllocateBlocks: the blocks stay on the free stack.            *)
PeekBlocks(c, n) ==
  LET taken == TopOfStack(c, n) IN
  [c EXCEPT !.ref_counts = [b \in Blocks |-> IF b \in ToSet(taken) THEN 1 ELSE @[b]],
            !.blocks = @ \o taken]

(* n calls of allocate, each pushing its block into the table.             *)
AllocateBlocks(c, n) ==
  LET taken == TopOfStack(c, n) IN
  [c EXCEPT !.free = SubSeq(@, 1, NumFree(c) - n),
            !.ref_counts = [b \in Blocks |-> IF b \in ToSet(taken) THEN 1 ELSE @[b]],
            !.blocks = @ \o taken]

Incref(c, b) == [c EXCEPT !.ref_counts[b] = @ + 1]

Decref(c, b) ==
  [c EXCEPT !.ref_counts[b] = @ - 1,
            !.free = IF c.ref_counts[b] = 1 THEN Append(@, b) ELSE @]

-----------------------------------------------------------------------------
(* BlockTable.                                                             *)

TableCapacity(c) == Len(c.blocks) * BlockSize

BlockAt(c, logical) == c.blocks[logical + 1]

Slot(c, pos) == BlockAt(c, pos \div BlockSize) * BlockSize + (pos % BlockSize)

-----------------------------------------------------------------------------
(* PagedKvPool.                                                            *)

(* write: item i of the batch belongs in slots[i].  The loop cuts the      *)
(* batch into runs; it extends a run while `i + n == start_slot + n`, that *)
(* is when the run starts at a slot equal to its index in the batch, and   *)
(* then up to the end of the batch.  The run lands in consecutive slots.   *)
PoolWrite(pool, slots, items) ==
  LET batch == 0 .. Len(slots) - 1
      selfSlot == {i \in batch : slots[i + 1] = i}
      inRun(i) == \E j \in selfSlot : j <= i
      target(i) == IF inRun(i) THEN i ELSE slots[i + 1]
      sources(s) == {i \in batch : target(i) = s}
      last(is) == CHOOSE i \in is : \A j \in is : j <= i
  IN [s \in PoolSlots |->
        IF sources(s) = {} THEN pool[s] ELSE items[last(sources(s)) + 1]]

(* write_block: one whole block, at its own slots.                         *)
WriteBlock(pool, b, items) ==
  [s \in PoolSlots |->
     IF s \div BlockSize = b THEN items[(s % BlockSize) + 1] ELSE pool[s]]

BlockView(c, b) == [i \in 1..BlockSize |-> c.pool[b * BlockSize + i - 1]]

-----------------------------------------------------------------------------
(* KvCache.                                                                *)

(* The token path whose chained hash names logical block b of tokens.      *)
PathOf(tokens, b) == SubSeq(tokens, 1, (b + 1) * BlockSize)

(* The KV of position pos, as the network computes it.                     *)
KvOf(tokens, pos) == IF TellKvApart THEN SubSeq(tokens, 1, pos + 1) ELSE Empty

ResetSequence(c) ==
  [FoldLeft(Decref, c, c.blocks) EXCEPT !.blocks = Empty, !.len = 0]

(* Mutant of MaxReusableBlocks: an aligned prompt reuses its last block.   *)
FullBlocks(tokens) == Len(tokens) \div BlockSize

(* The last block of a block-aligned prompt is left to be run.             *)
MaxReusableBlocks(tokens) ==
  LET full == Len(tokens) \div BlockSize IN
  IF Len(tokens) % BlockSize = 0 /\ full > 0 THEN full - 1 ELSE full

(* The blocks match_prefix walks over before the registry first misses.    *)
MatchedBlocks(c, tokens) ==
  CHOOSE m \in 0 .. MaxReusableBlocks(tokens) :
    /\ \A b \in 0 .. m - 1 : PathOf(tokens, b) \in DOMAIN c.registry
    /\ m < MaxReusableBlocks(tokens) => PathOf(tokens, m) \notin DOMAIN c.registry

(* Mutant of MatchPrefix: the sequence takes no reference of its own.      *)
MatchWithoutRef(c, tokens) ==
  LET matched == [i \in 1 .. MatchedBlocks(c, tokens) |-> c.registry[PathOf(tokens, i - 1)]]
  IN [c EXCEPT !.blocks = @ \o matched, !.len = @ + Len(matched) * BlockSize]

MatchPrefix(c, tokens) ==
  LET matched == [i \in 1 .. MatchedBlocks(c, tokens) |-> c.registry[PathOf(tokens, i - 1)]]
  IN [FoldLeft(Incref, c, matched) EXCEPT
        !.blocks = @ \o matched, !.len = @ + Len(matched) * BlockSize]

(* Mutants: the registry takes no reference; only the last full block of a *)
(* prompt is registered.                                                   *)
RegisterWithoutRef(c, path) ==
  LET b == BlockAt(c, Len(path) \div BlockSize - 1) IN
  IF path \in DOMAIN c.registry THEN c
  ELSE [c EXCEPT !.registry =
          [p \in DOMAIN @ \cup {path} |-> IF p = path THEN b ELSE @[p]]]

(* Every full block of tokens that is not registered yet gets an entry,    *)
(* and the registry a reference on the block the table maps it to.         *)
RegisterBlock(c, path) ==
  LET b == BlockAt(c, Len(path) \div BlockSize - 1) IN
  IF path \in DOMAIN c.registry THEN c
  ELSE [Incref(c, b) EXCEPT
          !.registry = [p \in DOMAIN @ \cup {path} |-> IF p = path THEN b ELSE @[p]]]

RegisterLastBlock(c, tokens) ==
  LET full == Len(tokens) \div BlockSize IN
  IF full = 0 THEN c ELSE RegisterBlock(c, PathOf(tokens, full - 1))

RegisterPrefix(c, tokens) ==
  FoldLeft(RegisterBlock, c,
           [i \in 1 .. Len(tokens) \div BlockSize |-> PathOf(tokens, i - 1)])

(* allocate_kv: how many blocks n more tokens need, and what is left when  *)
(* the pool runs dry half-way (blocks in the table, len unchanged).        *)
BlocksNeeded(c, n) ==
  LET end == c.len + n IN
  IF end > TableCapacity(c) THEN CeilDiv(end - TableCapacity(c), BlockSize) ELSE 0

Overflows(c, n) == c.len + n > MaxSeqLen

CanAllocateKv(c, n) == ~Overflows(c, n) /\ BlocksNeeded(c, n) <= NumFree(c)

AllocateKv(c, n) == [AllocateBlocks(c, BlocksNeeded(c, n)) EXCEPT !.len = @ + n]

AllocateKvFails(c, n) == IF Overflows(c, n) THEN c ELSE AllocateBlocks(c, NumFree(c))

(* One forward pass over the last n of tokens: reserve their slots, then   *)
(* write their KV there (write_current).                                   *)
Forward(c, tokens, n) ==
  LET reserved == AllocateKv(c, n)
      start == reserved.len - n
  IN [reserved EXCEPT !.pool =
        PoolWrite(@, [i \in 1..n |-> Slot(reserved, start + i - 1)],
                     [i \in 1..n |-> KvOf(tokens, start + i - 1)])]

(* import_prefix_bundle, after its checks: a clean sequence, then one      *)
(* fresh block per bundle block, written, mapped and registered.           *)
ImportFits(c, items) == NumFree(ResetSequence(c)) >= Len(items) \div BlockSize

ImportBlocks(c, items, n) ==
  LET mapped == AllocateBlocks(ResetSequence(c), n)
      write(pool, i) ==
        WriteBlock(pool, mapped.blocks[i], SubSeq(items, (i - 1) * BlockSize + 1, i * BlockSize))
  IN [mapped EXCEPT !.pool = FoldLeft(write, @, [i \in 1..n |-> i])]

(* Mutant of ImportPrefixBundle: the table is not advanced.                *)
ImportWithoutAdvance(c, tokens, items) ==
  RegisterPrefix(ImportBlocks(c, items, Len(items) \div BlockSize),
                 SubSeq(tokens, 1, Len(items)))

ImportPrefixBundle(c, tokens, items) ==
  LET imported == ImportBlocks(c, items, Len(items) \div BlockSize)
  IN RegisterPrefix([imported EXCEPT !.len = Len(items)], SubSeq(tokens, 1, Len(items)))

(* Mutant of ImportFailsMidway: the half-built table is kept.              *)
RollBackKeepingTable(c, items, n) ==
  LET partial == ImportBlocks(c, items, n) IN
  FoldLeft(Decref, partial, partial.blocks)

(* Mutant of ImportFailsMidway: the table is dropped with its references.  *)
RollBackWithoutDecref(c, items, n) == [ImportBlocks(c, items, n) EXCEPT !.blocks = Empty]

(* A write fails after n blocks: they are released and the table cleared.  *)
ImportFailsMidway(c, items, n) ==
  LET partial == ImportBlocks(c, items, n) IN
  [FoldLeft(Decref, partial, partial.blocks) EXCEPT !.blocks = Empty]

(* export_prefix_bundle: the KV of the first n live positions, block by    *)
(* block from the pool.                                                    *)
ExportPrefix(c, n) == [i \in 1..n |-> c.pool[Slot(c, i - 1)]]

(* clear_prefix_cache: the registry's references are dropped in the order  *)
(* its map is drained, so the freed blocks land on the stack in any order. *)
ClearPrefixCache(c, order) ==
  [FoldLeft(Decref, c, order) EXCEPT !.registry = [path \in {} |-> 0]]

DrainOrders(c) == SetToSeqs({c.registry[p] : p \in DOMAIN c.registry})

-----------------------------------------------------------------------------
(* State predicates of a cache.                                            *)

(* References to block b: its places in the table and in the registry.     *)
References(c, b) ==
  Cardinality({i \in 1 .. Len(c.blocks) : c.blocks[i] = b})
    + Cardinality({p \in DOMAIN c.registry : c.registry[p] = b})

(* What attention reads at each live position is the KV of its own prefix. *)
GathersExactly(c, tokens) ==
  \A pos \in 0 .. c.len - 1 : c.pool[Slot(c, pos)] = KvOf(tokens, pos)
=============================================================================
