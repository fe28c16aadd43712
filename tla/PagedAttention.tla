--------------------------- MODULE PagedAttention ---------------------------
(***************************************************************************)
(* The attention kernel of backend/cpu.rs: paged_attention folds the live  *)
(* KV blocks of a sequence one at a time, in logical order, into a softmax *)
(* that is rescaled whenever a larger score turns up, and never holds more *)
(* than one block of scores.  The reference is causal_attention of the     *)
(* same file: masked softmax over the whole sequence at once.              *)
(*                                                                         *)
(* Numbers.  A softmax weight is kept as its exponent: e stands for exp(e),*)
(* NegInf for exp(-inf) = 0 and NaN for a result that is not a number.     *)
(* The weighted sum of values and the sum of weights are then functions    *)
(* from the kv position of each term to its exponent, and two of them are  *)
(* equal when the real sums are term by term.  Rounding is left out.       *)
(* One call is one layer; a score is any function of a query row and the   *)
(* KV head of an item of the pool.                                         *)
(***************************************************************************)
EXTENDS KvCache

CONSTANTS
  NumHeads, NumKvHeads,  \* num_attention_heads, num_key_value_heads
  Queries,               \* a query row of one head
  Items,                 \* the KV of one position, all heads
  Score(_, _, _),        \* query . key * scale, for a query, an item, a KV head
  MaxScore               \* no score is outside -MaxScore .. MaxScore

NRep == NumHeads \div NumKvHeads

Heads == 0 .. NumHeads - 1
KvHeads == 0 .. NumKvHeads - 1

(* repeat_kv: query head h reads KV head h / n_rep.                        *)
KvHead(h) == h \div NRep

ASSUME AttentionAssumption ==
  /\ NumHeads \in Nat \ {0}
  /\ NumKvHeads \in Nat \ {0}
  /\ MaxScore \in Nat
  /\ \A h \in Heads : KvHead(h) \in KvHeads
  /\ \A q \in Queries, it \in Items, g \in KvHeads :
       Score(q, it, g) \in (-MaxScore) .. MaxScore

(* Beyond every difference of scores.                                      *)
NegInf == -(4 * MaxScore) - 1
NaN == 4 * MaxScore + 1

VARIABLES
  cache,        \* the KvCache of the call
  queries,      \* its queries, by row
  seq_q,        \* how many query positions
  kv_start,     \* kv positions folded so far
  running_max, running_sum, acc  \* per row

foldVars == <<kv_start, running_max, running_sum, acc>>
attnVars == <<cache, queries, seq_q, foldVars>>

-----------------------------------------------------------------------------
(* A row is a query head and a query position.                             *)
RowsOf(n) == Heads \X (0 .. n - 1)

Offset == cache.len - seq_q

(* Mutant of Masked: a query does not see its own position.                *)
MaskedTooEarly(i, p) == p >= Offset + i

(* kv position p is in the future of query position i.                     *)
Masked(i, p) == p > Offset + i

BlockLen == IF cache.len - kv_start < BlockSize THEN cache.len - kv_start ELSE BlockSize

(* gather_blocks: position kv_start + j is the j-th slot of the view that  *)
(* starts at the slot of kv_start.                                         *)
BlockItem(j) == cache.pool[Slot(cache, kv_start) + j]

ScoreInBlock(row, j) ==
  IF Masked(row[2], kv_start + j) THEN NegInf
  ELSE Score(queries[row], BlockItem(j), KvHead(row[1]))

NewMax(row) == Max({running_max[row]} \cup {ScoreInBlock(row, j) : j \in 0 .. BlockLen - 1})

(* a - b, and exp(e) * exp(f).                                             *)
Minus(a, b) == CASE b = NegInf -> NaN
                 [] b # NegInf /\ a = NegInf -> NegInf
                 [] OTHER -> a - b

Times(e, f) == CASE NaN \in {e, f} -> NaN
                 [] NaN \notin {e, f} /\ NegInf \in {e, f} -> NegInf
                 [] OTHER -> e + f

(* Mutant of Rescaled: earlier terms stay on the maximum they had.         *)
AppendedUnscaled(terms, row) ==
  [p \in 0 .. (kv_start + BlockLen) - 1 |->
     IF p < kv_start THEN terms[row][p]
     ELSE Minus(ScoreInBlock(row, p - kv_start), NewMax(row))]

(* What is there, rescaled onto the new maximum, and the block's weights.  *)
Rescaled(terms, row) ==
  [p \in 0 .. (kv_start + BlockLen) - 1 |->
     IF p < kv_start
     THEN Times(terms[row][p], Minus(running_max[row], NewMax(row)))
     ELSE Minus(ScoreInBlock(row, p - kv_start), NewMax(row))]

-----------------------------------------------------------------------------
(* paged_attention is called with the live blocks of c, after the keys of  *)
(* the n query positions have been written at its end.                     *)
WellFormedCall(c, n, q) ==
  /\ c.len \in Nat /\ n \in 1 .. c.len
  /\ \A p \in 0 .. c.len - 1 :
       BlockAt(c, p \div BlockSize) \in Blocks /\ c.pool[Slot(c, p)] \in Items
  /\ q \in [RowsOf(n) -> Queries]

Call(c, n, q) ==
  /\ WellFormedCall(c, n, q)
  /\ cache' = c
  /\ queries' = q
  /\ seq_q' = n
  /\ kv_start' = 0
  /\ running_max' = [row \in RowsOf(n) |-> NegInf]
  /\ running_sum' = [row \in RowsOf(n) |-> Empty]
  /\ acc' = [row \in RowsOf(n) |-> Empty]

(* One turn of the loop over blocks.                                       *)
FoldBlock ==
  /\ kv_start < cache.len
  /\ kv_start' = kv_start + BlockLen
  /\ running_max' = [row \in RowsOf(seq_q) |-> NewMax(row)]
  /\ running_sum' = [row \in RowsOf(seq_q) |-> Rescaled(running_sum, row)]
  /\ acc' = [row \in RowsOf(seq_q) |-> Rescaled(acc, row)]
  /\ UNCHANGED <<cache, queries, seq_q>>

(* No call has been made yet: an empty cache and no queries.               *)
AttnInit ==
  /\ cache = NewKvCache
  /\ queries = Empty
  /\ seq_q = 0
  /\ kv_start = 0
  /\ running_max = Empty
  /\ running_sum = Empty
  /\ acc = Empty

AttnNext == (\E c, n, q : Call(c, n, q)) \/ FoldBlock

AttnSpec == AttnInit /\ [][AttnNext]_attnVars

-----------------------------------------------------------------------------
(* causal_attention on the gathered sequence: scores of the positions up   *)
(* to the query's own minus their maximum, weight zero for the others.     *)
VisibleScore(row, p) == Score(queries[row], cache.pool[Slot(cache, p)], KvHead(row[1]))

VisiblePositions(row) == 0 .. (cache.len - seq_q) + row[2]

CausalWeights(row) ==
  LET top == Max({VisibleScore(row, p) : p \in VisiblePositions(row)}) IN
  [p \in 0 .. cache.len - 1 |->
     IF p \in VisiblePositions(row) THEN VisibleScore(row, p) - top ELSE NegInf]

(* cpu.rs:47-59.  When the last block is folded, every query row weighs    *)
(* the values of the positions up to its own as the softmax over the whole *)
(* sequence does, and no others, whatever the order in which larger scores *)
(* and fully masked blocks came; the weights are relative to the row's     *)
(* true maximum (none overflows) and no row has become NaN.                *)
AttentionExact ==
  kv_start = cache.len =>
    \A row \in RowsOf(seq_q) :
      acc[row] = CausalWeights(row) /\ running_sum[row] = CausalWeights(row)
=============================================================================
