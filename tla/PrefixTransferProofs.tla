------------------------ MODULE PrefixTransferProofs ------------------------
(***************************************************************************)
(* The attention kernel and the transfer of a prefix, for any engines,     *)
(* prompts, scores and sizes:                                              *)
(*                                                                         *)
(*   - the kernel of PagedAttention computes causal attention;             *)
(*   - whatever the pool and the file hold, the tokens run after an import *)
(*     are attended to exactly (the transfer's steps are steps or          *)
(*     stutters of the kernel);                                            *)
(*   - what is accepted is what is whole and alike;                        *)
(*   - what is imported is, position by position, the KV this engine       *)
(*     computes itself, and its blocks stay accounted for.                 *)
(*                                                                         *)
(* For the kernel, AttentionExact speaks of the end of the loop and the    *)
(* invariant of every turn: after the blocks up to kv_start, running_max   *)
(* is the largest score that is visible so far and each term is a score    *)
(* minus it.  A row has seen a score from the first block on, because      *)
(* position 0 is visible to every query; without that the first rescaling  *)
(* would be NaN.  For the file, the invariant says that its header is the  *)
(* one its publisher wrote, that it is whole exactly when the magic number *)
(* is there and its length is the one the header asks for, and that every  *)
(* tensor is in its place of the payload (Carries).  For the importer, it  *)
(* is the account of blocks of KvCacheProofs; until the import its pool is *)
(* empty and nothing is registered.                                        *)
(***************************************************************************)
EXTENDS PrefixTransfer, KvCacheProofs

VisibleBelow(row, k) == {p \in 0 .. k - 1 : ~Masked(row[2], p)}

(* top is the largest score visible to row among the first k positions.    *)
IsTop(row, k, top) ==
  /\ top \in (-MaxScore) .. MaxScore
  /\ \E p \in VisibleBelow(row, k) : VisibleScore(row, p) = top
  /\ \A p \in VisibleBelow(row, k) : VisibleScore(row, p) <= top

WeightAt(row, p, top) ==
  IF Masked(row[2], p) THEN NegInf ELSE VisibleScore(row, p) - top

WeightsBelow(row, k, top) == [p \in 0 .. k - 1 |-> WeightAt(row, p, top)]

Folded(row) ==
  IF kv_start = 0 THEN running_max[row] = NegInf
  ELSE /\ IsTop(row, kv_start, running_max[row])
       /\ acc[row] = WeightsBelow(row, kv_start, running_max[row])
       /\ running_sum[row] = WeightsBelow(row, kv_start, running_max[row])

NotCalled == cache.len = 0 /\ seq_q = 0

AttnInv ==
  /\ NotCalled \/ WellFormedCall(cache, seq_q, queries)
  /\ kv_start \in 0 .. cache.len
  /\ kv_start = cache.len \/ kv_start % BlockSize = 0
  /\ \A row \in RowsOf(seq_q) : Folded(row)

-----------------------------------------------------------------------------
(* A nonempty set of integers with an upper bound has a maximum.           *)
LEMMA MaxOfBounded ==
  ASSUME NEW S \in SUBSET Int, S # {}, NEW u \in Int, \A x \in S : x <= u
  PROVE  Max(S) \in S /\ \A x \in S : x <= Max(S)
<1> DEFINE T == {u - x : x \in S}
<1>1. T \in SUBSET Nat /\ T # {}
  <2>1. \A x \in S : u - x \in Nat
    OBVIOUS
  <2>. QED
    BY <2>1
<1>2. PICK t \in T : \A y \in T : ~(<<y, t>> \in OpToRel(<, Nat))
  <2>. HIDE DEF T
  <2>. QED
    BY <1>1, NatLessThanWellFounded, WFMin
<1>3. \A y \in T : t <= y
  <2>. SUFFICES ASSUME NEW y \in T PROVE t <= y
    OBVIOUS
  <2>1. y \in Nat /\ t \in Nat
    BY <1>1
  <2>2. ~(y < t)
    BY <1>2, <2>1 DEF OpToRel
  <2>. QED
    BY <2>1, <2>2
<1>4. PICK x \in S : t = u - x
  OBVIOUS
<1>5. \A y \in S : x >= y
  <2>. SUFFICES ASSUME NEW y \in S PROVE x >= y
    OBVIOUS
  <2>1. t <= u - y
    BY <1>3
  <2>. QED
    BY <2>1, <1>4
<1>. QED
  BY <1>5 DEF Max

(* The maximum of a set is the only element that is above all of it.       *)
LEMMA MaxIsUnique ==
  ASSUME NEW S \in SUBSET Int, NEW m \in S, \A x \in S : x <= m
  PROVE  Max(S) = m
<1>1. Max(S) \in S /\ \A x \in S : Max(S) >= x
  <2>1. \E y \in S : \A x \in S : y >= x
    OBVIOUS
  <2>. QED
    BY <2>1 DEF Max
<1>2. Max(S) <= m /\ m <= Max(S) /\ Max(S) \in Int /\ m \in Int
  BY <1>1
<1>. QED
  BY <1>2

-----------------------------------------------------------------------------
(* Slots inside a block are consecutive: the view of a block holds, j      *)
(* places after its start, the item of the j-th position after kv_start.   *)
LEMMA BlockItemIsItsOwn ==
  ASSUME AttnInv, kv_start < cache.len, NEW j \in 0 .. BlockLen - 1
  PROVE  /\ kv_start + j \in 0 .. cache.len - 1
         /\ BlockItem(j) = cache.pool[Slot(cache, kv_start + j)]
<1>1. BlockSize \in Nat \ {0} /\ kv_start \in Nat /\ cache.len \in Nat /\ j \in Nat
  <2>1. BlockLen \in Nat
    BY KvCacheAssumption DEF BlockLen, AttnInv, NotCalled, WellFormedCall
  <2>. QED
    BY <2>1, KvCacheAssumption DEF AttnInv, NotCalled, WellFormedCall
<1>2. j < BlockSize /\ kv_start + j < cache.len
  BY <1>1 DEF BlockLen
<1>3. kv_start % BlockSize = 0
  BY <1>1 DEF AttnInv
<1>4. (kv_start + j) \div BlockSize = kv_start \div BlockSize /\ (kv_start + j) % BlockSize = j
  BY <1>1, <1>2, <1>3, SMTT(30)
<1>5. BlockAt(cache, kv_start \div BlockSize) \in Int
  <2>1. kv_start \in 0 .. cache.len - 1
    BY <1>1
  <2>. QED
    BY <2>1, <1>1 DEF AttnInv, NotCalled, WellFormedCall, Blocks
<1>. QED
  BY <1>1, <1>2, <1>3, <1>4, <1>5 DEF BlockItem, Slot


(* What the loop computes for position kv_start + j is that position's     *)
(* score, or NegInf when it is masked.                                     *)
LEMMA ScoresOfBlock ==
  ASSUME AttnInv, kv_start < cache.len,
         NEW row \in RowsOf(seq_q), NEW j \in 0 .. BlockLen - 1
  PROVE  /\ ScoreInBlock(row, j) = (IF Masked(row[2], kv_start + j) THEN NegInf
                                   ELSE VisibleScore(row, kv_start + j))
         /\ VisibleScore(row, kv_start + j) \in (-MaxScore) .. MaxScore
<1>1. /\ kv_start + j \in 0 .. cache.len - 1
      /\ BlockItem(j) = cache.pool[Slot(cache, kv_start + j)]
  BY BlockItemIsItsOwn
<1>2. WellFormedCall(cache, seq_q, queries)
  BY DEF AttnInv, NotCalled
<1>3. cache.pool[Slot(cache, kv_start + j)] \in Items
  BY <1>1, <1>2 DEF WellFormedCall
<1>4. row[1] \in Heads /\ queries[row] \in Queries
  BY <1>2 DEF WellFormedCall, RowsOf
<1>. QED
  BY <1>1, <1>3, <1>4, AttentionAssumption DEF ScoreInBlock, VisibleScore

(* Every score of a live position is within bounds.                        *)
LEMMA VisibleScoresBounded ==
  ASSUME AttnInv, NEW row \in RowsOf(seq_q), NEW p \in 0 .. cache.len - 1
  PROVE  VisibleScore(row, p) \in (-MaxScore) .. MaxScore
<1>1. WellFormedCall(cache, seq_q, queries)
  BY DEF AttnInv, NotCalled
<1>2. row[1] \in Heads /\ queries[row] \in Queries /\ cache.pool[Slot(cache, p)] \in Items
  BY <1>1 DEF WellFormedCall, RowsOf
<1>. QED
  BY <1>2, AttentionAssumption DEF VisibleScore

(* Position 0 is visible to every query, so the first block gives every    *)
(* row a score.                                                            *)
LEMMA FirstPositionVisible ==
  ASSUME AttnInv, kv_start < cache.len, NEW row \in RowsOf(seq_q)
  PROVE  ~Masked(row[2], 0)
BY DEF AttnInv, NotCalled, WellFormedCall, RowsOf, Masked, Offset

LEMMA BlockLenPositive ==
  ASSUME AttnInv, kv_start < cache.len
  PROVE  /\ BlockLen \in Nat \ {0} /\ kv_start \in Nat /\ cache.len \in Nat
         /\ kv_start + BlockLen <= cache.len
         /\ kv_start + BlockLen = cache.len \/ BlockLen = BlockSize
BY KvCacheAssumption DEF BlockLen, AttnInv, NotCalled, WellFormedCall

(* The new running maximum is the largest score visible up to the end of   *)
(* the block.                                                              *)
LEMMA NewMaxIsTop ==
  ASSUME AttnInv, kv_start < cache.len, NEW row \in RowsOf(seq_q)
  PROVE  /\ IsTop(row, kv_start + BlockLen, NewMax(row))
         /\ running_max[row] <= NewMax(row)
         /\ running_max[row] \in {NegInf} \cup (-MaxScore) .. MaxScore
<1> DEFINE B == 0 .. BlockLen - 1
           S == {running_max[row]} \cup {ScoreInBlock(row, j) : j \in B}
<1>0. MaxScore \in Nat /\ NegInf \in Int /\ NegInf < -MaxScore
  BY AttentionAssumption DEF NegInf
<1>1. BlockLen \in Nat \ {0} /\ kv_start \in Nat
  BY BlockLenPositive
<1>2. Folded(row)
  BY DEF AttnInv
<1>3. running_max[row] \in {NegInf} \cup (-MaxScore) .. MaxScore
  BY <1>2 DEF Folded, IsTop
<1>4. \A j \in B : ScoreInBlock(row, j) \in {NegInf} \cup (-MaxScore) .. MaxScore
  BY ScoresOfBlock
<1>5. S \in SUBSET Int /\ S # {} /\ \A x \in S : x <= MaxScore
  BY <1>0, <1>3, <1>4
<1>6. NewMax(row) \in S /\ \A x \in S : x <= NewMax(row)
  <2>. HIDE DEF S
  <2>1. Max(S) \in S /\ \A x \in S : x <= Max(S)
    BY <1>5, <1>0, MaxOfBounded
  <2>. QED
    BY <2>1 DEF NewMax, S
<1>7. \E p \in VisibleBelow(row, kv_start + BlockLen) :
        VisibleScore(row, p) \in S /\ VisibleScore(row, p) \in (-MaxScore) .. MaxScore
  <2>1. CASE kv_start = 0
    <3>1. 0 \in B /\ kv_start + 0 = 0
      BY <1>1, <2>1
    <3>2. ScoreInBlock(row, 0) = VisibleScore(row, 0)
          /\ VisibleScore(row, 0) \in (-MaxScore) .. MaxScore
      BY <3>1, ScoresOfBlock, FirstPositionVisible
    <3>3. 0 \in VisibleBelow(row, kv_start + BlockLen)
      BY <1>1, <2>1, FirstPositionVisible DEF VisibleBelow
    <3>. QED
      BY <3>1, <3>2, <3>3
  <2>2. CASE kv_start # 0
    BY <1>1, <1>2, <2>2 DEF Folded, IsTop, VisibleBelow
  <2>. QED
    BY <2>1, <2>2
<1>8. NewMax(row) \in (-MaxScore) .. MaxScore
  BY <1>0, <1>3, <1>4, <1>5, <1>6, <1>7
<1>9. \A p \in VisibleBelow(row, kv_start + BlockLen) : VisibleScore(row, p) <= NewMax(row)
  <2>. SUFFICES ASSUME NEW p \in VisibleBelow(row, kv_start + BlockLen)
                PROVE  VisibleScore(row, p) <= NewMax(row)
    OBVIOUS
  <2>1. CASE p < kv_start
    <3>1. p \in VisibleBelow(row, kv_start) /\ kv_start # 0
      BY <1>1, <2>1 DEF VisibleBelow
    <3>2. VisibleScore(row, p) <= running_max[row]
      BY <1>2, <3>1 DEF Folded, IsTop
    <3>3. VisibleScore(row, p) \in Int
      BY <3>1, <1>0, VisibleScoresBounded, BlockLenPositive DEF VisibleBelow
    <3>. QED
      BY <3>2, <3>3, <1>0, <1>3, <1>6, <1>8
  <2>2. CASE p >= kv_start
    <3>1. p - kv_start \in B /\ kv_start + (p - kv_start) = p
      BY <1>1, <2>2 DEF VisibleBelow
    <3>2. ScoreInBlock(row, p - kv_start) = VisibleScore(row, p)
      BY <3>1, ScoresOfBlock DEF VisibleBelow
    <3>. QED
      BY <3>1, <3>2, <1>6
  <2>. QED
    BY <1>1, <2>1, <2>2 DEF VisibleBelow
<1>10. \E p \in VisibleBelow(row, kv_start + BlockLen) : VisibleScore(row, p) = NewMax(row)
  <2>1. CASE \E j \in B : NewMax(row) = ScoreInBlock(row, j)
    <3>1. PICK j \in B : NewMax(row) = ScoreInBlock(row, j)
      BY <2>1
    <3>2. ~Masked(row[2], kv_start + j) /\ VisibleScore(row, kv_start + j) = NewMax(row)
      BY <1>0, <1>8, <3>1, ScoresOfBlock
    <3>3. kv_start + j \in VisibleBelow(row, kv_start + BlockLen)
      BY <1>1, <3>2 DEF VisibleBelow
    <3>. QED
      BY <3>2, <3>3
  <2>2. CASE NewMax(row) = running_max[row]
    <3>1. kv_start # 0
      BY <1>0, <1>2, <1>8, <2>2 DEF Folded
    <3>. QED
      BY <1>1, <1>2, <2>2, <3>1 DEF Folded, IsTop, VisibleBelow
  <2>. QED
    BY <1>6, <2>1, <2>2
<1>. QED
  BY <1>3, <1>6, <1>8, <1>9, <1>10 DEF IsTop

(* Rescaling what was accumulated and adding the block's terms gives the   *)
(* weights of all positions so far, relative to the new maximum.           *)
LEMMA RescaledIsExact ==
  ASSUME AttnInv, kv_start < cache.len, NEW row \in RowsOf(seq_q), NEW terms,
         kv_start # 0 => terms[row] = WeightsBelow(row, kv_start, running_max[row])
  PROVE  Rescaled(terms, row) = WeightsBelow(row, kv_start + BlockLen, NewMax(row))
<1> DEFINE
      got(p) == IF p < kv_start
                THEN Times(terms[row][p], Minus(running_max[row], NewMax(row)))
                ELSE Minus(ScoreInBlock(row, p - kv_start), NewMax(row))
<1>0. MaxScore \in Nat /\ NegInf = -(4 * MaxScore) - 1 /\ NaN = 4 * MaxScore + 1
  BY AttentionAssumption DEF NegInf, NaN
<1>1. /\ BlockLen \in Nat \ {0} /\ kv_start \in Nat /\ cache.len \in Nat
      /\ kv_start + BlockLen <= cache.len
  BY BlockLenPositive
<1>2. NewMax(row) \in (-MaxScore) .. MaxScore
  BY NewMaxIsTop DEF IsTop
<1>3. \A p \in 0 .. (kv_start + BlockLen) - 1 :
        got(p) = WeightAt(row, p, NewMax(row))
  <2>. SUFFICES ASSUME NEW p \in 0 .. (kv_start + BlockLen) - 1
                PROVE  got(p) = WeightAt(row, p, NewMax(row))
    OBVIOUS
  <2>0. VisibleScore(row, p) \in (-MaxScore) .. MaxScore
    BY <1>1, VisibleScoresBounded
  <2>1. CASE p < kv_start
    <3>1. Folded(row) /\ kv_start # 0
      BY <1>1, <2>1 DEF AttnInv
    <3>2. running_max[row] \in (-MaxScore) .. MaxScore
      BY <3>1 DEF Folded, IsTop
    <3>3. running_max[row] <= NewMax(row)
      BY NewMaxIsTop
    <3>4. Minus(running_max[row], NewMax(row)) = running_max[row] - NewMax(row)
      BY <1>0, <1>2, <3>2 DEF Minus
    <3>5. terms[row][p] = (IF Masked(row[2], p) THEN NegInf
                           ELSE VisibleScore(row, p) - running_max[row])
      BY <1>1, <2>1, <3>1 DEF WeightsBelow, WeightAt
    <3>6. CASE Masked(row[2], p)
      BY <1>0, <1>2, <2>1, <3>2, <3>3, <3>4, <3>5, <3>6 DEF Times, WeightAt
    <3>7. CASE ~Masked(row[2], p)
      BY <1>0, <1>2, <2>0, <2>1, <3>2, <3>3, <3>4, <3>5, <3>7 DEF Times, WeightAt
    <3>. QED
      BY <3>6, <3>7
  <2>2. CASE ~(p < kv_start)
    <3>1. p - kv_start \in 0 .. BlockLen - 1 /\ kv_start + (p - kv_start) = p
      BY <1>1, <2>2
    <3>2. ScoreInBlock(row, p - kv_start) = (IF Masked(row[2], p) THEN NegInf
                                             ELSE VisibleScore(row, p))
      BY <3>1, ScoresOfBlock
    <3>. QED
      BY <1>0, <1>2, <2>0, <2>2, <3>2 DEF Minus, WeightAt
  <2>. QED
    BY <2>1, <2>2
<1>4. Rescaled(terms, row) = [p \in 0 .. (kv_start + BlockLen) - 1 |-> got(p)]
  BY DEF Rescaled
<1>. HIDE DEF got
<1>. QED
  BY <1>3, <1>4 DEF WeightsBelow

-----------------------------------------------------------------------------
(* Before the first call nothing is folded.                                *)
LEMMA AttnInitInv == AttnInit => AttnInv
<1>. SUFFICES ASSUME AttnInit PROVE AttnInv
  OBVIOUS
<1>1. cache.len = 0 /\ seq_q = 0 /\ kv_start = 0
  BY DEF AttnInit, NewKvCache
<1>2. RowsOf(seq_q) = {}
  BY <1>1 DEF RowsOf
<1>. QED
  BY <1>1, <1>2 DEF AttnInv, NotCalled

(* A call starts every row at minus infinity.                              *)
LEMMA CallInv ==
  ASSUME NEW c, NEW n, NEW q, Call(c, n, q)
  PROVE  AttnInv'
<1>1. WellFormedCall(cache, seq_q, queries)'
  BY DEF Call, WellFormedCall, RowsOf, Slot, BlockAt
<1>2. (kv_start \in 0 .. cache.len)' /\ (kv_start % BlockSize = 0)' /\ kv_start' = 0
  BY KvCacheAssumption DEF Call, WellFormedCall
<1>3. \A row \in RowsOf(seq_q)' : Folded(row)'
  BY <1>2 DEF Call, Folded, RowsOf
<1>. QED
  BY <1>1, <1>2, <1>3 DEF AttnInv

(* Folding a block extends the weights to its end.                         *)
LEMMA FoldBlockInv ==
  ASSUME AttnInv, FoldBlock
  PROVE  AttnInv'
<1>0. UNCHANGED <<cache, queries, seq_q>> /\ kv_start < cache.len
  BY DEF FoldBlock
<1>1. /\ BlockLen \in Nat \ {0} /\ kv_start \in Nat /\ cache.len \in Nat
      /\ kv_start + BlockLen <= cache.len
      /\ kv_start + BlockLen = cache.len \/ BlockLen = BlockSize
      /\ kv_start' = kv_start + BlockLen
  BY <1>0, BlockLenPositive DEF FoldBlock
<1>2. (NotCalled \/ WellFormedCall(cache, seq_q, queries))'
  BY <1>0 DEF AttnInv, NotCalled, WellFormedCall, RowsOf, Slot, BlockAt
<1>3. (kv_start \in 0 .. cache.len)'
  BY <1>0, <1>1
<1>4. (kv_start = cache.len \/ kv_start % BlockSize = 0)'
  <2>1. CASE kv_start + BlockLen = cache.len
    BY <1>0, <1>1, <2>1
  <2>2. CASE BlockLen = BlockSize
    <3>1. kv_start % BlockSize = 0 /\ BlockSize \in Nat \ {0}
      BY <1>0, <1>1, KvCacheAssumption DEF AttnInv
    <3>2. (kv_start + BlockSize) % BlockSize = 0
      BY <1>1, <3>1, SMTT(30)
    <3>. QED
      BY <1>0, <1>1, <2>2, <3>2
  <2>. QED
    BY <1>1, <2>1, <2>2
<1>5. ASSUME NEW row \in RowsOf(seq_q)
      PROVE  Folded(row)'
  <2>1. /\ running_max'[row] = NewMax(row)
        /\ acc'[row] = Rescaled(acc, row)
        /\ running_sum'[row] = Rescaled(running_sum, row)
    BY DEF FoldBlock
  <2>2. Folded(row)
    BY DEF AttnInv
  <2>3. /\ acc'[row] = WeightsBelow(row, kv_start', running_max'[row])
        /\ running_sum'[row] = WeightsBelow(row, kv_start', running_max'[row])
    <3>1. /\ kv_start # 0 => acc[row] = WeightsBelow(row, kv_start, running_max[row])
          /\ kv_start # 0 => running_sum[row] = WeightsBelow(row, kv_start, running_max[row])
      BY <2>2 DEF Folded
    <3>. QED
      BY <1>0, <1>1, <2>1, <3>1, RescaledIsExact
  <2>4. IsTop(row, kv_start', running_max'[row])
    BY <1>0, <1>1, <2>1, NewMaxIsTop
  <2>5. /\ \A p : Masked(row[2], p)' = Masked(row[2], p)
        /\ \A p : VisibleScore(row, p)' = VisibleScore(row, p)
    BY <1>0 DEF Masked, Offset, VisibleScore, Slot, BlockAt
  <2>6. IsTop(row, kv_start, running_max[row])'
    BY <2>4, <2>5 DEF IsTop, VisibleBelow
  <2>7. WeightsBelow(row, kv_start, running_max[row])' = WeightsBelow(row, kv_start', running_max'[row])
    BY <2>5 DEF WeightsBelow, WeightAt, NegInf
  <2>. QED
    BY <1>1, <2>3, <2>6, <2>7 DEF Folded
<1>6. RowsOf(seq_q)' = RowsOf(seq_q)
  BY <1>0
<1>. QED
  BY <1>2, <1>3, <1>4, <1>5, <1>6 DEF AttnInv

(* Every step of the kernel keeps the invariant.                           *)
LEMMA AttnStep == AttnInv /\ [AttnNext]_attnVars => AttnInv'
<1>. SUFFICES ASSUME AttnInv, [AttnNext]_attnVars PROVE AttnInv'
  OBVIOUS
<1>1. CASE \E c, n, q : Call(c, n, q)
  BY <1>1, CallInv
<1>2. CASE FoldBlock
  BY <1>2, FoldBlockInv
<1>3. CASE UNCHANGED attnVars
  BY <1>3 DEF attnVars, foldVars, AttnInv, NotCalled, WellFormedCall, RowsOf, Slot, BlockAt,
              Folded, IsTop, WeightsBelow, WeightAt, VisibleBelow, Masked, Offset, VisibleScore, NegInf
<1>. QED
  BY <1>1, <1>2, <1>3 DEF AttnNext

(* At the end of the loop the weights below kv_start are all the weights.  *)
LEMMA InvImpliesExact == AttnInv => AttentionExact
<1>. SUFFICES ASSUME AttnInv, kv_start = cache.len, NEW row \in RowsOf(seq_q)
              PROVE  acc[row] = CausalWeights(row) /\ running_sum[row] = CausalWeights(row)
  BY DEF AttentionExact
<1>1. WellFormedCall(cache, seq_q, queries) /\ kv_start # 0
  BY DEF AttnInv, NotCalled, RowsOf, WellFormedCall
<1>2. Folded(row)
  BY DEF AttnInv
<1>3. VisibleBelow(row, kv_start) = VisiblePositions(row)
  BY <1>1 DEF VisibleBelow, VisiblePositions, Masked, Offset, RowsOf, WellFormedCall
<1>4. Max({VisibleScore(row, p) : p \in VisiblePositions(row)}) = running_max[row]
  <2> DEFINE S == {VisibleScore(row, p) : p \in VisiblePositions(row)}
  <2>1. S \in SUBSET Int
    BY <1>1, VisibleScoresBounded, AttentionAssumption
       DEF VisiblePositions, RowsOf, WellFormedCall
  <2>2. running_max[row] \in S /\ \A x \in S : x <= running_max[row]
    BY <1>1, <1>2, <1>3 DEF Folded, IsTop
  <2>. HIDE DEF S
  <2>3. Max(S) = running_max[row]
    BY <2>1, <2>2, MaxIsUnique
  <2>. QED
    BY <2>3 DEF S
<1>5. WeightsBelow(row, kv_start, running_max[row]) = CausalWeights(row)
  <2>1. CausalWeights(row) =
          [p \in 0 .. cache.len - 1 |->
             IF p \in VisiblePositions(row) THEN VisibleScore(row, p) - running_max[row]
             ELSE NegInf]
    BY <1>4 DEF CausalWeights
  <2>2. \A p \in 0 .. cache.len - 1 : p \in VisiblePositions(row) <=> ~Masked(row[2], p)
    BY <1>1 DEF VisiblePositions, Masked, Offset, RowsOf, WellFormedCall
  <2>. QED
    BY <2>1, <2>2 DEF WeightsBelow, WeightAt
<1>. QED
  BY <1>1, <1>2, <1>5 DEF Folded

(* cpu.rs:47: the streamed attention is the causal attention of the whole  *)
(* sequence, for every block size, every number of blocks and of query     *)
(* rows and every score.                                                   *)
THEOREM StreamedAttentionExact == AttnSpec => []AttentionExact
<1>1. AttnInit => AttnInv
  BY AttnInitInv
<1>2. AttnInv /\ [AttnNext]_attnVars => AttnInv'
  BY AttnStep
<1>3. AttnInv => AttentionExact
  BY InvImpliesExact
<1>. QED
  BY <1>1, <1>2, <1>3, PTL DEF AttnSpec

-----------------------------------------------------------------------------
(* The header an engine writes for a prefix.                               *)
HeaderOf(engine, prefix) ==
  [model_id |-> engine.model_id,
   token_count |-> Len(prefix),
   token_ids |-> prefix,
   block_size |-> engine.block_size,
   num_layers |-> engine.num_layers,
   num_kv_heads |-> engine.num_kv_heads,
   head_dim |-> engine.head_dim,
   dtype |-> engine.dtype]

Published(engine, prefix) ==
  /\ engine \in EngineConfigs
  /\ prefix \in Seq(Nat)
  /\ Len(prefix) # 0 /\ Len(prefix) % engine.block_size = 0

-----------------------------------------------------------------------------
(* n sequences of the same length w, one after the other.                  *)
Rectangle(s, n, w, S) ==
  /\ n \in Nat \ {0} /\ w \in Nat \ {0}
  /\ s \in [1 .. n -> Seq(S)]
  /\ \A i \in 1 .. n : Len(s[i]) = w

Flat(s, w, k) == [y \in 1 .. k * w |-> s[((y - 1) \div w) + 1][((y - 1) % w) + 1]]

LEMMA FlatStep ==
  ASSUME NEW s, NEW n, NEW w, NEW S, Rectangle(s, n, w, S), NEW k \in Nat, k + 1 <= n
  PROVE  /\ Flat(s, w, k) \in Seq(S)
         /\ Flat(s, w, k) \o s[k + 1] = Flat(s, w, k + 1)
         /\ k = 0 => Flat(s, w, k + 1) = s[k + 1]
<1>1. /\ n \in Nat \ {0} /\ w \in Nat \ {0}
      /\ s \in [1 .. n -> Seq(S)]
      /\ \A i \in 1 .. n : Len(s[i]) = w
  BY DEF Rectangle
<1>2. PICK a \in Nat : a = k * w /\ (k + 1) * w = a + w
  BY <1>1, TimesOrder
<1> DEFINE at(y) == s[((y - 1) \div w) + 1][((y - 1) % w) + 1]
           f == [y \in 1 .. a |-> at(y)]
           t == s[k + 1]
<1>3. t \in Seq(S) /\ Len(t) = w
  <2>1. k + 1 \in 1 .. n
    BY <1>1
  <2> QED
    BY <1>1, <2>1
<1>4. \A y \in 1 .. a : at(y) \in S
  <2> TAKE y \in 1 .. a
  <2>1. PICK z \in Nat : y = z + 1 /\ z < a /\ y - 1 = z
    BY <1>2
  <2>2. PICK q \in Nat : q = z \div w /\ q < k
    <3>1. z \div w \in Nat /\ (z \div w < k <=> z < a)
      BY <1>1, <1>2, DivFloor, DivBound
    <3> QED
      BY <2>1, <3>1
  <2>3. PICK r \in Nat : r = z % w /\ r < w
    <3>1. z % w \in 0 .. w - 1
      BY <1>1, DivFloor
    <3>2. z % w \in Nat /\ z % w < w
      BY <1>1, <3>1
    <3> QED
      BY <3>2
  <2>4. s[q + 1] \in Seq(S) /\ Len(s[q + 1]) = w
    <3>1. q + 1 \in 1 .. n
      BY <1>1, <2>2
    <3> QED
      BY <1>1, <3>1
  <2>5. r + 1 \in 1 .. w
    BY <1>1, <2>3
  <2>6. s[q + 1][r + 1] \in S
    BY <2>4, <2>5, ElementOfSeq
  <2> QED
    BY <2>1, <2>2, <2>3, <2>6
<1>5. \A x \in 1 .. w : at(a + x) = t[x]
  <2> TAKE x \in 1 .. w
  <2>1. PICK z \in 0 .. w - 1 : x = z + 1
    <3>1. x - 1 \in 0 .. w - 1 /\ x = (x - 1) + 1
      BY <1>1
    <3> QED
      BY <3>1
  <2>2. (k * w + z) \div w = k /\ (k * w + z) % w = z
    BY <1>1, DivUnique
  <2>3. (a + x) - 1 = a + z
    BY <1>2, <2>1
  <2> QED
    BY <1>2, <2>1, <2>2, <2>3
<1> HIDE DEF at, t
<1>6. f \in Seq(S) /\ Len(f) = a /\ DOMAIN f = 1 .. a
  <2>1. f \in [1 .. a -> S]
    BY <1>4
  <2> QED
    BY <1>2, <2>1, SeqDef, LenProperties
<1> DEFINE g == [y \in 1 .. a + w |-> at(y)]
<1>7. f \o t = g
  <2>1. f \o t \in Seq(S) /\ Len(f \o t) = a + w
    BY <1>3, <1>6, ConcatProperties
  <2>2. \A y \in 1 .. a + w : (f \o t)[y] = IF y <= a THEN f[y] ELSE t[y - a]
    BY <1>3, <1>6, ConcatProperties
  <2>3. \A y \in 1 .. a + w : (f \o t)[y] = at(y)
    <3> TAKE y \in 1 .. a + w
    <3>1. CASE y <= a
      BY <1>2, <2>2, <3>1
    <3>2. CASE ~(y <= a)
      <4>1. y - a \in 1 .. w /\ a + (y - a) = y
        BY <1>1, <1>2, <3>2
      <4>2. at(a + (y - a)) = t[y - a]
        BY <1>5, <4>1
      <4> QED
        BY <2>2, <3>2, <4>1, <4>2
    <3> QED
      BY <3>1, <3>2
  <2>4. DOMAIN (f \o t) = 1 .. a + w /\ f \o t = [y \in 1 .. a + w |-> (f \o t)[y]]
    BY <2>1, LenProperties
  <2> HIDE DEF f
  <2> QED
    BY <2>3, <2>4
<1>8. Flat(s, w, k) = f /\ Flat(s, w, k + 1) = g
  BY <1>2 DEF Flat, at
<1>9. k = 0 => g = t
  <2> SUFFICES ASSUME k = 0 PROVE g = t
    OBVIOUS
  <2>1. a = 0
    BY <1>1, <1>2
  <2>2. \A y \in 1 .. w : at(y) = t[y]
    <3> TAKE y \in 1 .. w
    <3>1. a + y = y
      BY <2>1
    <3> QED
      BY <1>5, <3>1
  <2>3. DOMAIN t = 1 .. w /\ t = [y \in 1 .. w |-> t[y]]
    BY <1>3, LenProperties
  <2>4. a + w = w
    BY <1>1, <2>1
  <2> QED
    BY <2>2, <2>3, <2>4
<1> HIDE DEF f, g
<1> QED
  BY <1>6, <1>7, <1>8, <1>9 DEF t

LEMMA FlattenUniform ==
  ASSUME NEW s, NEW n, NEW w, NEW S, Rectangle(s, n, w, S)
  PROVE  FlattenSeq(s) = Flat(s, w, n)
<1> DEFINE IsIt(f) == f = [i \in 1 .. Len(s) |-> IF i = 1 THEN s[i] ELSE f[i - 1] \o s[i]]
           h == CHOOSE f : IsIt(f)
           F == [i \in 1 .. n |-> Flat(s, w, i)]
<1>1. n \in Nat \ {0} /\ Len(s) = n
  BY LenProperties, SeqDef DEF Rectangle
<1>2. \A k \in Nat : k + 1 <= n => Flat(s, w, k) \o s[k + 1] = Flat(s, w, k + 1)
  BY FlatStep
<1>3. Flat(s, w, 1) = s[1]
  <2>1. 0 + 1 = 1 /\ 0 \in Nat /\ 0 + 1 <= n
    BY <1>1
  <2>2. Flat(s, w, 0 + 1) = s[0 + 1]
    BY <2>1, FlatStep
  <2> QED
    BY <2>1, <2>2
<1> HIDE DEF Flat
<1>4. IsIt(F)
  <2>1. ASSUME NEW i \in 1 .. n, i # 1 PROVE F[i] = F[i - 1] \o s[i]
    <3>1. PICK k \in Nat : i = k + 1 /\ k = i - 1 /\ k \in 1 .. n
      <4>1. i - 1 \in 1 .. n /\ i = (i - 1) + 1 /\ i - 1 \in Nat
        BY <1>1, <2>1
      <4> QED
        BY <4>1
    <3> QED
      BY <1>2, <2>1, <3>1
  <2>2. 1 \in 1 .. n => F[1] = s[1]
    BY <1>3
  <2> HIDE DEF F
  <2>3. F = [i \in 1 .. n |-> F[i]]
    BY DEF F
  <2> QED
    BY <1>1, <2>1, <2>2, <2>3
<1>5. IsIt(h)
  <2> HIDE DEF IsIt, F
  <2> QED
    BY <1>4
<1>6. FlattenSeq(s) = h[n]
  BY <1>1 DEF FlattenSeq
<1> HIDE DEF h
<1> DEFINE T == {k \in Nat : k + 1 <= n => h[k + 1] = Flat(s, w, k + 1)}
<1>7. 0 \in T
  BY <1>1, <1>3, <1>5
<1>8. ASSUME NEW k \in Nat, k \in T PROVE k + 1 \in T
  <2> SUFFICES ASSUME (k + 1) + 1 <= n PROVE h[(k + 1) + 1] = Flat(s, w, (k + 1) + 1)
    OBVIOUS
  <2>1. PICK j \in Nat : j = k + 1 /\ j + 1 \in 1 .. n /\ j + 1 # 1 /\ (j + 1) - 1 = j /\ j <= n
    BY <1>1
  <2>2. h[j] = Flat(s, w, j)
    BY <1>8, <2>1
  <2>3. h[j + 1] = h[j] \o s[j + 1]
    BY <1>1, <1>5, <2>1
  <2> HIDE DEF T
  <2> QED
    BY <1>2, <2>1, <2>2, <2>3
<1>9. n - 1 \in T
  <2>1. n - 1 \in Nat
    BY <1>1
  <2> HIDE DEF T
  <2> QED
    BY <1>7, <1>8, <2>1, NatSetInduction
<1>10. (n - 1) + 1 = n /\ (n - 1) + 1 <= n
  BY <1>1
<1> QED
  BY <1>6, <1>9, <1>10

FlatWhole(s, n, w, S, f) ==
  /\ f \in Seq(S) /\ Len(f) = n * w
  /\ \A i \in 1 .. n, x \in 1 .. w : f[(i - 1) * w + x] = s[i][x]

LEMMA FlattenReads ==
  ASSUME NEW s, NEW n, NEW w, NEW S, Rectangle(s, n, w, S)
  PROVE  FlatWhole(s, n, w, S, FlattenSeq(s))
<1> DEFINE f == Flat(s, w, n)
<1>1. /\ n \in Nat \ {0} /\ w \in Nat \ {0}
      /\ s \in [1 .. n -> Seq(S)]
      /\ \A i \in 1 .. n : Len(s[i]) = w
  BY DEF Rectangle
<1>2. PICK k \in Nat : n = k + 1 /\ k + 1 <= n
  <2>1. n - 1 \in Nat /\ n = (n - 1) + 1 /\ (n - 1) + 1 <= n
    BY <1>1
  <2> QED
    BY <2>1
<1>3. Flat(s, w, k) \in Seq(S) /\ Flat(s, w, k) \o s[k + 1] = f
  BY <1>2, FlatStep
<1>4. f \in Seq(S)
  <2>1. s[k + 1] \in Seq(S)
    BY <1>1, <1>2
  <2> HIDE DEF f
  <2> QED
    BY <1>3, <2>1, ConcatProperties
<1>5. PICK m \in Nat : m = n * w
  BY <1>1, TimesOrder
<1>6. Len(f) = n * w
  <2>1. DOMAIN f = 1 .. m
    BY <1>5 DEF Flat
  <2> HIDE DEF f
  <2>2. Len(f) \in Nat /\ DOMAIN f = 1 .. Len(f)
    BY <1>4, LenProperties
  <2> QED
    BY <1>5, <2>1, <2>2
<1>7. ASSUME NEW i \in 1 .. n, NEW x \in 1 .. w PROVE f[(i - 1) * w + x] = s[i][x]
  <2>1. PICK j \in Nat : i = j + 1 /\ j = i - 1 /\ j + 1 <= n
    <3>1. i - 1 \in Nat /\ i = (i - 1) + 1 /\ (i - 1) + 1 <= n
      BY <1>1
    <3> QED
      BY <3>1
  <2>2. PICK z \in 0 .. w - 1 : x = z + 1
    <3>1. x - 1 \in 0 .. w - 1 /\ x = (x - 1) + 1
      BY <1>1
    <3> QED
      BY <3>1
  <2>3. (j * w + z) \div w = j /\ (j * w + z) % w = z
    BY <1>1, DivUnique
  <2>4. PICK a \in Nat : a = j * w /\ (j + 1) * w = a + w
    BY <1>1, TimesOrder
  <2>5. a + w <= m
    <3>1. j + 1 \in Nat /\ n \in Nat
      BY <1>1
    <3>2. (j + 1) * w <= n * w
      BY <1>1, <2>1, <3>1, TimesOrder
    <3> QED
      BY ONLY <1>5, <2>4, <3>2
  <2>6. a + x \in 1 .. m /\ (a + x) - 1 = a + z
    <3>1. w \in Nat /\ a \in Nat /\ m \in Nat /\ z \in 0 .. w - 1 /\ x = z + 1
      BY <1>1, <1>5, <2>2, <2>4
    <3> QED
      BY ONLY <2>5, <3>1
  <2>7. f[a + x] = s[(((a + x) - 1) \div w) + 1][(((a + x) - 1) % w) + 1]
    BY <1>5, <2>6 DEF Flat
  <2> HIDE DEF f
  <2> QED
    BY <2>1, <2>2, <2>3, <2>4, <2>6, <2>7
<1>8. FlattenSeq(s) = f
  BY FlattenUniform
<1> HIDE DEF f
<1> QED
  BY <1>4, <1>6, <1>7, <1>8 DEF FlatWhole

(* Where encode puts the two tensors of layer l of block b.                *)
Shaped(blocks, B, L) ==
  /\ B \in Nat \ {0} /\ L \in Nat \ {0}
  /\ DOMAIN blocks = 1 .. B
  /\ \A b \in 1 .. B : DOMAIN blocks[b] = 1 .. L

TensorOffset(b, l, L) == 2 * ((b - 1) * L + l - 1)

TensorsAt(payload, blocks, B, L) ==
  \A b \in 1 .. B, l \in 1 .. L :
    /\ payload[TensorOffset(b, l, L) + 1] = blocks[b][l].k
    /\ payload[TensorOffset(b, l, L) + 2] = blocks[b][l].v

LEMMA EncodedTensors ==
  ASSUME NEW bundle, NEW B, NEW L, Shaped(bundle.blocks, B, L)
  PROVE  TensorsAt(Encode(bundle).payload, bundle.blocks, B, L)
<1> DEFINE blocks == bundle.blocks
           At == (1 .. B) \X (1 .. L)
           C == {blocks[x[1]][x[2]].k : x \in At} \cup {blocks[x[1]][x[2]].v : x \in At}
           pair(b, l) == <<blocks[b][l].k, blocks[b][l].v>>
           row(b) == [l \in 1 .. L |-> pair(b, l)]
           rows == [b \in 1 .. B |-> FlattenSeq(row(b))]
           payload == FlattenSeq(rows)
<1>1. /\ B \in Nat \ {0} /\ L \in Nat \ {0}
      /\ DOMAIN blocks = 1 .. B /\ \A b \in 1 .. B : DOMAIN blocks[b] = 1 .. L
  BY DEF Shaped
<1>2. Encode(bundle).payload = payload
  BY <1>1 DEF Encode
<1>3. \A b \in 1 .. B, l \in 1 .. L : pair(b, l) \in Seq(C) /\ Len(pair(b, l)) = 2
  <2> TAKE b \in 1 .. B, l \in 1 .. L
  <2>1. ASSUME NEW S, NEW x \in S, NEW y \in S
        PROVE  <<x, y>> \in Seq(S) /\ Len(<<x, y>>) = 2
    OBVIOUS
  <2>2. blocks[b][l].k \in C /\ blocks[b][l].v \in C
    <3>1. PICK x \in At : x[1] = b /\ x[2] = l
      <4>1. <<b, l>> \in At /\ <<b, l>>[1] = b /\ <<b, l>>[2] = l
        OBVIOUS
      <4> QED
        BY ONLY <4>1
    <3> HIDE DEF At, blocks
    <3>2. blocks[b][l].k \in {blocks[y[1]][y[2]].k : y \in At}
      BY ONLY <3>1
    <3>3. blocks[b][l].v \in {blocks[y[1]][y[2]].v : y \in At}
      BY ONLY <3>1
    <3> QED
      BY ONLY <3>2, <3>3 DEF C
  <2> HIDE DEF C, blocks
  <2> QED
    BY ONLY <2>1, <2>2
<1> HIDE DEF C, pair
<1>4. ASSUME NEW b \in 1 .. B PROVE FlatWhole(row(b), L, 2, C, FlattenSeq(row(b)))
  <2>1. Rectangle(row(b), L, 2, C)
    BY <1>1, <1>3, <1>4 DEF Rectangle
  <2> QED
    BY ONLY <2>1, FlattenReads
<1>5. PICK w \in Nat \ {0} : w = L * 2
  BY <1>1
<1>6. Rectangle(rows, B, w, C)
  <2>1. \A b \in 1 .. B : FlattenSeq(row(b)) \in Seq(C) /\ Len(FlattenSeq(row(b))) = w
    BY <1>4, <1>5 DEF FlatWhole
  <2> HIDE DEF row
  <2> QED
    BY <1>1, <1>5, <2>1 DEF Rectangle
<1>7. FlatWhole(rows, B, w, C, payload)
  BY <1>6, FlattenReads
<1>8. ASSUME NEW b \in 1 .. B, NEW l \in 1 .. L, NEW e \in 1 .. 2
      PROVE  payload[TensorOffset(b, l, L) + e] = pair(b, l)[e]
  <2>1. PICK y \in Nat : y = (l - 1) * 2 + e /\ y \in 1 .. w
    BY <1>1, <1>5
  <2>2. FlattenSeq(row(b))[y] = row(b)[l][e]
    BY <1>4, <2>1 DEF FlatWhole
  <2>3. payload[(b - 1) * w + y] = rows[b][y]
    BY <1>7, <2>1 DEF FlatWhole
  <2>4. (b - 1) * w + y = TensorOffset(b, l, L) + e
    <3>1. PICK j \in Nat : j = b - 1
      BY <1>1
    <3>2. PICK a \in Nat : a = j * L
      BY <1>1, TimesOrder
    <3>3. j * w = 2 * a
      BY <1>1, <1>5, <3>2
    <3> QED
      BY <1>1, <2>1, <3>1, <3>2, <3>3 DEF TensorOffset
  <2>5. rows[b] = FlattenSeq(row(b)) /\ row(b)[l] = pair(b, l)
    OBVIOUS
  <2> HIDE DEF rows, row, payload
  <2> QED
    BY <2>2, <2>3, <2>4, <2>5
<1> HIDE DEF payload
<1>9. \A b \in 1 .. B, l \in 1 .. L :
        pair(b, l)[1] = blocks[b][l].k /\ pair(b, l)[2] = blocks[b][l].v
  BY DEF pair
<1>10. ASSUME NEW b \in 1 .. B, NEW l \in 1 .. L
       PROVE  /\ payload[TensorOffset(b, l, L) + 1] = blocks[b][l].k
              /\ payload[TensorOffset(b, l, L) + 2] = blocks[b][l].v
  <2>1. 1 \in 1 .. 2 /\ 2 \in 1 .. 2
    OBVIOUS
  <2>2. payload[TensorOffset(b, l, L) + 1] = pair(b, l)[1]
    BY ONLY <1>8, <1>10, <2>1
  <2>3. payload[TensorOffset(b, l, L) + 2] = pair(b, l)[2]
    BY ONLY <1>8, <1>10, <2>1
  <2> QED
    BY <1>9, <2>2, <2>3
<1> QED
  BY <1>2, <1>10 DEF TensorsAt

(* The tensor of one half of layer l for block b of a prefix, and a payload*)
(* with every tensor in its place.                                         *)
Tensor(engine, prefix, b, l, half) ==
  [j \in 1 .. engine.block_size |->
     <<engine, <<l, half>>, SubSeq(prefix, 1, (b - 1) * engine.block_size + j)>>]

Carries(payload, engine, prefix) ==
  \A b \in 1 .. Len(prefix) \div engine.block_size, l \in 1 .. engine.num_layers :
    /\ payload[TensorOffset(b, l, engine.num_layers) + 1] = Tensor(engine, prefix, b, l, "k")
    /\ payload[TensorOffset(b, l, engine.num_layers) + 2] = Tensor(engine, prefix, b, l, "v")

(* A prefix of a prefix.                                                   *)
LEMMA PrefixOfPrefix ==
  ASSUME NEW T, NEW p \in Seq(T), NEW n \in Nat, n <= Len(p), NEW y \in 0 .. n
  PROVE  SubSeq(SubSeq(p, 1, n), 1, y) = SubSeq(p, 1, y)
<1>1. ASSUME NEW s \in Seq(T), NEW k \in Nat, k <= Len(s)
      PROVE  /\ SubSeq(s, 1, k) \in Seq(T) /\ Len(SubSeq(s, 1, k)) = k
             /\ \A i \in 1 .. k : SubSeq(s, 1, k)[i] = s[i]
  <2>1. \A i \in 1 .. k : s[i] \in T
    BY <1>1, ElementOfSeq, LenProperties
  <2>2. /\ SubSeq(s, 1, k) \in Seq(T)
        /\ Len(SubSeq(s, 1, k)) = IF 1 <= k THEN k - 1 + 1 ELSE 0
        /\ \A i \in 1 .. k - 1 + 1 : SubSeq(s, 1, k)[i] = s[1 + i - 1]
    BY <2>1, SubSeqProperties
  <2>3. k - 1 + 1 = k /\ (~(1 <= k) => k = 0) /\ \A i \in 1 .. k : 1 + i - 1 = i
    OBVIOUS
  <2> QED
    BY <2>2, <2>3
<1> DEFINE s == SubSeq(p, 1, n)
<1>2. s \in Seq(T) /\ Len(s) = n /\ \A i \in 1 .. n : s[i] = p[i]
  BY <1>1
<1>3. y \in Nat /\ y <= n /\ y <= Len(p) /\ 1 .. y \subseteq 1 .. n
  BY LenProperties
<1> HIDE DEF s
<1> DEFINE u == SubSeq(s, 1, y)
           v == SubSeq(p, 1, y)
<1>4. u \in Seq(T) /\ Len(u) = y /\ \A i \in 1 .. y : u[i] = s[i]
  BY <1>1, <1>2, <1>3
<1>5. v \in Seq(T) /\ Len(v) = y /\ \A i \in 1 .. y : v[i] = p[i]
  BY <1>1, <1>3
<1> HIDE DEF u, v
<1>6. u = v
  BY <1>2, <1>3, <1>4, <1>5, SeqEqual
<1> QED
  BY <1>6 DEF s, u, v

(* Position j of block b, and back.                                        *)
LEMMA PlaceInPrefix ==
  ASSUME NEW k \in Nat \ {0}, NEW m \in Nat, m % k = 0, NEW b \in 1 .. m \div k, NEW j \in 1 .. k
  PROVE  (b - 1) * k + j \in 1 .. m
<1>1. PICK B \in Nat : B = m \div k /\ m = B * k
  BY DivExact
<1>2. PICK c \in Nat : b = c + 1 /\ c = b - 1 /\ c + 1 <= B
  <2>1. b - 1 \in Nat /\ b = (b - 1) + 1 /\ b <= B
    BY <1>1
  <2> QED
    BY <2>1
<1>3. PICK a \in Nat : a = c * k /\ (c + 1) * k = a + k
  BY TimesOrder
<1>4. a + k <= m
  <2>1. c + 1 \in Nat
    BY <1>2
  <2>2. (c + 1) * k <= B * k
    BY <1>1, <1>2, <2>1, TimesOrder
  <2> QED
    BY ONLY <1>1, <1>3, <2>2
<1>5. a + j \in 1 .. m
  BY ONLY <1>4, a \in Nat, k \in Nat \ {0}, m \in Nat, j \in 1 .. k
<1> QED
  BY <1>2, <1>3, <1>5

(* An exported and encoded prefix carries every tensor.                    *)
LEMMA PublishedTensors ==
  ASSUME NEW e \in EngineConfigs, NEW p \in Seq(Nat), NEW n \in Nat, n # 0,
         n % e.block_size = 0, n <= Len(p),
         NEW bundle, bundle = BundleOf(e, p, n, ColumnsOf(e, p)),
         NEW prefix, prefix = SubSeq(p, 1, n)
  PROVE  Carries(Encode(bundle).payload, e, prefix)
<1> DEFINE k == e.block_size
           L == e.num_layers
           B == n \div k
           items == ColumnsOf(e, p)
           tensor(b, l, half) == [j \in 1 .. k |-> items[(b - 1) * k + j][<<l, half>>]]
<1>1. k \in Nat \ {0} /\ L \in Nat \ {0}
  BY DEF EngineConfigs
<1>2. B \in Nat \ {0}
  <2>1. B \in Nat /\ n = k * B + (n % k)
    BY <1>1, DivFloor
  <2>2. k * 0 = 0
    BY <1>1
  <2> QED
    BY <2>1, <2>2
<1>3. Len(prefix) = n
  <2>1. \A i \in 1 .. n : p[i] \in Nat
    OBVIOUS
  <2> QED
    BY <2>1, SubSeqProperties
<1>4. bundle.blocks = [b \in 1 .. B |-> [l \in 1 .. L |->
                         [k |-> tensor(b, l, "k"), v |-> tensor(b, l, "v")]]]
  BY DEF BundleOf
<1>5. ASSUME NEW b \in 1 .. B, NEW l \in 1 .. L, NEW half \in {"k", "v"}
      PROVE  tensor(b, l, half) = Tensor(e, prefix, b, l, half)
  <2> SUFFICES ASSUME NEW j \in 1 .. k
               PROVE  items[(b - 1) * k + j][<<l, half>>]
                        = <<e, <<l, half>>, SubSeq(prefix, 1, (b - 1) * k + j)>>
    BY DEF Tensor
  <2>1. (b - 1) * k + j \in 1 .. n
    BY <1>1, PlaceInPrefix
  <2>2. PICK y \in 1 .. n : y = (b - 1) * k + j
    BY <2>1
  <2>3. y \in 1 .. Len(p)
    BY LenProperties
  <2>4. items[y] = Column(e, SubSeq(p, 1, y))
    BY <2>3 DEF ColumnsOf
  <2>5. Column(e, SubSeq(p, 1, y))[<<l, half>>] = <<e, <<l, half>>, SubSeq(p, 1, y)>>
    BY DEF Column
  <2>6. SubSeq(prefix, 1, y) = SubSeq(p, 1, y)
    <3>1. y \in 0 .. n
      OBVIOUS
    <3> QED
      BY <3>1, PrefixOfPrefix
  <2> HIDE DEF items
  <2> QED
    BY <2>2, <2>4, <2>5, <2>6
<1> HIDE DEF tensor, B
<1>6. Shaped(bundle.blocks, B, L)
  BY <1>1, <1>2, <1>4 DEF Shaped
<1>7. TensorsAt(Encode(bundle).payload, bundle.blocks, B, L)
  BY <1>6, EncodedTensors
<1>8. \A b \in 1 .. B, l \in 1 .. L :
        /\ bundle.blocks[b][l].k = Tensor(e, prefix, b, l, "k")
        /\ bundle.blocks[b][l].v = Tensor(e, prefix, b, l, "v")
  BY <1>4, <1>5
<1> QED
  BY <1>3, <1>7, <1>8 DEF Carries, TensorsAt, B

(* What is decoded from a payload with every tensor in its place.          *)
LEMMA DecodedItems ==
  ASSUME NEW e, NEW prefix, Published(e, prefix),
         NEW f, f.meta = HeaderOf(e, prefix), Carries(f.payload, e, prefix)
  PROVE  ItemsOf(Decode(f)) = [pos \in 1 .. Len(prefix) |-> Column(e, SubSeq(prefix, 1, pos))]
<1> DEFINE k == e.block_size
           L == e.num_layers
           m == Len(prefix)
           B == m \div k
           blocks == Decode(f).blocks
<1>1. k \in Nat \ {0} /\ L \in Nat \ {0} /\ m \in Nat /\ m % k = 0
  BY LenProperties DEF Published, EngineConfigs
<1>2. /\ f.meta.block_size = k /\ f.meta.num_layers = L /\ f.meta.token_count = m
      /\ NumBlocksOf(f.meta) = B
  BY DEF HeaderOf, NumBlocksOf
<1>3. \A b \in 1 .. B, l \in 1 .. L :
        /\ blocks[b][l].k = Tensor(e, prefix, b, l, "k")
        /\ blocks[b][l].v = Tensor(e, prefix, b, l, "v")
  BY <1>2 DEF Decode, Carries, TensorOffset
<1>4. Decode(f).meta = f.meta
  BY DEF Decode
<1> DEFINE b(pos) == ((pos - 1) \div k) + 1
           at(pos) == ((pos - 1) % k) + 1
<1>5. \A pos \in 1 .. m : b(pos) \in 1 .. B /\ at(pos) \in 1 .. k
                          /\ (b(pos) - 1) * k + at(pos) = pos
  <2> TAKE pos \in 1 .. m
  <2>1. PICK z \in Nat : z = pos - 1 /\ z < m /\ pos = z + 1
    BY <1>1
  <2>2. PICK q \in Nat : q = z \div k /\ q < B
    <3>1. z \div k \in Nat /\ B \in Nat
      BY <1>1, DivFloor
    <3>2. B * k = m
      <4>1. m = k * B + (m % k)
        BY <1>1, DivFloor
      <4> QED
        BY <1>1, <3>1, <4>1
    <3>3. z \div k < B <=> z < B * k
      BY <1>1, <3>1, DivBound
    <3> QED
      BY <2>1, <3>1, <3>2, <3>3
  <2>3. z % k \in 0 .. k - 1 /\ z = k * (z \div k) + (z % k)
    BY <1>1, DivFloor
  <2>4. PICK r \in 0 .. k - 1 : r = z % k
    BY <2>3
  <2>5. q * k + r = z
    BY <1>1, <2>2, <2>3, <2>4
  <2>6. B \in Nat
    BY <1>1, DivFloor
  <2>7. b(pos) = q + 1 /\ at(pos) = r + 1
    BY <2>1, <2>2, <2>4
  <2>8. q + 1 \in 1 .. B /\ (q + 1) - 1 = q /\ r + 1 \in 1 .. k
    <3>1. q + 1 \in 1 .. B /\ (q + 1) - 1 = q
      BY ONLY <2>2, <2>6
    <3>2. k \in Nat
      BY <1>1
    <3> QED
      BY ONLY <3>1, <3>2, <2>4
  <2>9. q * k + (r + 1) = pos
    <3>1. q * k \in Nat
      BY <1>1, TimesOrder
    <3> QED
      BY <2>1, <2>5, <3>1
  <2> QED
    BY <2>7, <2>8, <2>9
<1> DEFINE cell(pos, lk) == IF lk[2] = "k" THEN blocks[b(pos)][lk[1]].k[at(pos)]
                            ELSE blocks[b(pos)][lk[1]].v[at(pos)]
<1>6. ItemsOf(Decode(f)) =
        [pos \in 1 .. m |-> [lk \in (1 .. L) \X {"k", "v"} |-> cell(pos, lk)]]
  BY <1>2, <1>4 DEF ItemsOf
<1> HIDE DEF blocks
<1>7. ASSUME NEW pos \in 1 .. m, NEW lk \in (1 .. L) \X {"k", "v"}
      PROVE  cell(pos, lk) = <<e, lk, SubSeq(prefix, 1, pos)>>
  <2>1. PICK l \in 1 .. L, half \in {"k", "v"} : lk = <<l, half>>
    OBVIOUS
  <2>2. PICK c \in 1 .. B, j \in 1 .. k : c = b(pos) /\ j = at(pos) /\ (c - 1) * k + j = pos
    BY <1>5
  <2>3. Tensor(e, prefix, c, l, half)[j] = <<e, lk, SubSeq(prefix, 1, pos)>>
    BY <2>1, <2>2 DEF Tensor
  <2>4. cell(pos, lk) = IF half = "k" THEN blocks[c][l].k[j] ELSE blocks[c][l].v[j]
    BY <2>1, <2>2
  <2> HIDE DEF cell
  <2>5. cell(pos, lk) = Tensor(e, prefix, c, l, half)[j]
    BY <1>3, <2>4
  <2> QED
    BY <2>3, <2>5
<1> HIDE DEF cell
<1>8. \A pos \in 1 .. m :
        [lk \in (1 .. L) \X {"k", "v"} |-> cell(pos, lk)] = Column(e, SubSeq(prefix, 1, pos))
  BY <1>7 DEF Column
<1> QED
  BY <1>6, <1>8

-----------------------------------------------------------------------------
FileInv ==
  stage # "empty" =>
    /\ DOMAIN file = {"magic", "version", "header_len", "meta", "payload", "len"}
    /\ DOMAIN origin = {"peer", "prefix", "whole"}
    /\ Published(origin.peer, origin.prefix)
    /\ origin.whole \in BOOLEAN
    /\ file.meta = HeaderOf(origin.peer, origin.prefix)
    /\ file.version = origin.peer.version
    /\ file.header_len = HeaderBytes
    /\ file.len \in Int
    /\ Carries(file.payload, origin.peer, origin.prefix)
    /\ origin.whole <=> file.magic = MAGIC /\ PayloadIsWhole(file)

TransferInv == FileInv /\ AcceptedIffWholeAndAlike

-----------------------------------------------------------------------------
(* The product of positive sizes is positive.                              *)
LEMMA ProductPositive ==
  ASSUME NEW a \in Nat \ {0}, NEW b \in Nat \ {0}
  PROVE  a * b \in Nat \ {0}
OBVIOUS

(* The payload of what an engine publishes is not empty.                   *)
LEMMA PayloadPositive ==
  ASSUME NEW engine, NEW prefix, Published(engine, prefix)
  PROVE  /\ PayloadBytes(HeaderOf(engine, prefix)) \in Nat \ {0}
         /\ NumBlocksOf(HeaderOf(engine, prefix)) \in Nat \ {0}
<1> DEFINE meta == HeaderOf(engine, prefix)
<1>1. /\ meta.block_size \in Nat \ {0} /\ meta.num_layers \in Nat \ {0}
      /\ meta.num_kv_heads \in Nat \ {0} /\ meta.head_dim \in Nat \ {0}
      /\ meta.token_count \in Nat \ {0} /\ meta.token_count % meta.block_size = 0
  BY DEF Published, EngineConfigs, HeaderOf
<1>2. SizeInBytes(meta.dtype) \in Nat \ {0}
  BY DEF SizeInBytes
<1>. HIDE DEF meta
<1>3. NumBlocksOf(meta) \in Nat \ {0}
  BY <1>1, SMTT(30) DEF NumBlocksOf
<1>4. BytesPerTensor(meta) \in Nat \ {0}
  <2>1. meta.num_kv_heads * meta.block_size \in Nat \ {0}
    BY <1>1, ProductPositive
  <2>2. meta.num_kv_heads * meta.block_size * meta.head_dim \in Nat \ {0}
    BY <1>1, <2>1, ProductPositive
  <2>. QED
    BY <1>2, <2>2, ProductPositive DEF BytesPerTensor
<1>5. NumBlocksOf(meta) * meta.num_layers * 2 \in Nat \ {0}
  <2>1. NumBlocksOf(meta) * meta.num_layers \in Nat \ {0}
    BY <1>1, <1>3, ProductPositive
  <2>. QED
    BY <2>1, ProductPositive
<1>6. PayloadBytes(meta) \in Nat \ {0}
  BY <1>4, <1>5, ProductPositive DEF PayloadBytes
<1>. QED
  BY <1>3, <1>6 DEF meta

(* Two engines with the same release, model and layout are the same.       *)
LEMMA AlikeIsEqual ==
  ASSUME NEW e \in EngineConfigs, NEW f \in EngineConfigs,
         e.version = f.version, e.model_id = f.model_id, Layout(e) = Layout(f)
  PROVE  e = f
<1>1. /\ e.block_size = f.block_size /\ e.num_layers = f.num_layers
      /\ e.num_kv_heads = f.num_kv_heads /\ e.head_dim = f.head_dim /\ e.dtype = f.dtype
  BY DEF Layout
<1>. QED
  BY <1>1 DEF EngineConfigs

(* decode and the importer's checks accept a stored file exactly when it   *)
(* is whole and alike.                                                     *)
LEMMA AcceptsExactly ==
  ASSUME FileInv, stage # "empty", NEW p \in Seq(Nat)
  PROVE  Accepts(file, p) <=>
           /\ origin.whole
           /\ origin.peer = Local
           /\ IsPrefix(origin.prefix, p)
<1> DEFINE peer == origin.peer
           prefix == origin.prefix
           meta == HeaderOf(peer, prefix)
<1>1. /\ Published(peer, prefix)
      /\ file.meta = meta
      /\ file.version = peer.version /\ file.header_len = HeaderBytes /\ file.len \in Int
      /\ origin.whole <=> file.magic = MAGIC /\ PayloadIsWhole(file)
  BY DEF FileInv
<1>2. PayloadBytes(meta) \in Nat \ {0} /\ NumBlocksOf(meta) \in Nat \ {0}
  BY <1>1, PayloadPositive
<1>3. /\ meta.block_size # 0 /\ meta.token_count # 0 /\ BlockAligned(meta)
      /\ Len(meta.token_ids) = meta.token_count
      /\ meta.token_count = Len(prefix) /\ meta.token_ids = prefix /\ prefix \in Seq(Nat)
  BY <1>1 DEF Published, EngineConfigs, HeaderOf, BlockAligned
<1>4. Decodes(file) <=> origin.whole /\ peer.version = VERSION
  <2>1. PayloadIsWhole(file) => file.len >= HeaderEnd(file) /\ file.len >= PREFIX
    BY <1>1, <1>2, CodecAssumption DEF PayloadIsWhole, HeaderEnd, PREFIX
  <2>. QED
    BY <1>1, <1>3, <2>1 DEF Decodes, FrameIsRead, MetaIsSound
<1>5. /\ Decode(file).meta = meta
      /\ Len(Decode(file).blocks) = NumBlocksOf(meta)
  BY <1>1, <1>2 DEF Decode
<1>6. SubSeq(prefix, 1, Len(prefix)) = prefix
  BY <1>3, SubSeqFull
<1>7. IsPrefix(prefix, p) <=>
        meta.token_count <= Len(p) /\ SubSeq(p, 1, meta.token_count) = meta.token_ids
  BY <1>3, <1>6 DEF IsPrefix
<1>8. Importable(Decode(file), Local, p) <=>
        meta.model_id = Local.model_id /\ Layout(meta) = Layout(Local) /\ IsPrefix(prefix, p)
  BY <1>3, <1>5, <1>7 DEF Importable
<1>9. (peer.version = VERSION /\ meta.model_id = Local.model_id /\ Layout(meta) = Layout(Local))
        <=> peer = Local
  <2>1. peer \in EngineConfigs /\ Local \in EngineConfigs /\ Local.version = VERSION
    BY <1>1, TransferAssumption DEF Published
  <2>2. meta.model_id = peer.model_id /\ Layout(meta) = Layout(peer)
    BY DEF HeaderOf, Layout
  <2>. QED
    BY <2>1, <2>2, AlikeIsEqual
<1>. QED
  BY <1>4, <1>8, <1>9 DEF Accepts

-----------------------------------------------------------------------------
(* What is published is whole, under the header of its publisher.          *)
LEMMA PublishInv ==
  ASSUME NEW peer \in Peers, NEW p \in Prompts, Publish(peer, p)
  PROVE  TransferInv'
<1> DEFINE n == ReusableTokens(peer, p)
           prefix == SubSeq(p, 1, n)
           bundle == BundleOf(peer, p, n, ColumnsOf(peer, p))
<1>1. /\ stage' = "stored"
      /\ file' = [Encode(bundle) EXCEPT !.version = peer.version]
      /\ origin' = [peer |-> peer, prefix |-> prefix, whole |-> TRUE]
      /\ Exportable(peer, Len(p), n)
  BY DEF Publish
<1>2. peer \in EngineConfigs /\ p \in Seq(Nat)
  BY TransferAssumption
<1>3. n \in Nat
  <2>1. peer.block_size \in Nat \ {0} /\ Len(p) \in Nat
    BY <1>2 DEF EngineConfigs
  <2>2. p # Empty => Len(p) - 1 \in Nat
    BY <1>2 DEF Empty
  <2>3. p # Empty => (Len(p) - 1) \div peer.block_size \in Nat
    BY <2>1, <2>2, SMTT(30)
  <2>. QED
    BY <2>1, <2>3 DEF ReusableTokens
<1>. HIDE DEF n
<1>4. n # 0 /\ n % peer.block_size = 0 /\ n <= Len(p)
  BY <1>1 DEF Exportable
<1>5. prefix \in Seq(Nat) /\ Len(prefix) = n
  <2>1. \A i \in 1 .. n : p[i] \in Nat
    BY <1>2, <1>3, <1>4
  <2>. QED
    BY <1>3, <1>4, <2>1, SubSeqProperties
<1>6. Published(peer, prefix) /\ Carries(Encode(bundle).payload, peer, prefix)
  BY <1>2, <1>3, <1>4, <1>5, PublishedTensors DEF Published
<1>7. bundle.meta = HeaderOf(peer, prefix)
  BY <1>5 DEF BundleOf, HeaderOf
<1>. HIDE DEF prefix, bundle
<1>8. /\ file'.meta = HeaderOf(peer, prefix) /\ file'.version = peer.version
      /\ file'.header_len = HeaderBytes /\ file'.magic = MAGIC
      /\ file'.len = PREFIX + HeaderBytes + PayloadBytes(HeaderOf(peer, prefix))
      /\ DOMAIN file' = {"magic", "version", "header_len", "meta", "payload", "len"}
      /\ file'.payload = Encode(bundle).payload
  BY <1>1, <1>7 DEF Encode
<1>9. PayloadBytes(HeaderOf(peer, prefix)) \in Nat \ {0} /\ HeaderBytes \in Nat
  BY <1>6, PayloadPositive, CodecAssumption
<1>10. file'.len \in Int /\ PayloadIsWhole(file')
  BY <1>8, <1>9 DEF PayloadIsWhole, HeaderEnd, PREFIX
<1>11. FileInv'
  BY <1>1, <1>6, <1>8, <1>10 DEF FileInv
<1>. QED
  BY <1>1, <1>11 DEF TransferInv, AcceptedIffWholeAndAlike

(* No cut leaves the length the header asks for.                           *)
LEMMA DamageInv ==
  ASSUME FileInv, Damage
  PROVE  TransferInv'
<1>1. /\ stage = "stored" /\ stage' = "stored" /\ origin.whole
      /\ origin' = [origin EXCEPT !.whole = FALSE]
  BY DEF Damage
<1>2. /\ DOMAIN origin = {"peer", "prefix", "whole"}
      /\ DOMAIN file = {"magic", "version", "header_len", "meta", "payload", "len"}
      /\ Published(origin.peer, origin.prefix)
      /\ file.meta = HeaderOf(origin.peer, origin.prefix)
      /\ file.version = origin.peer.version
      /\ file.header_len = HeaderBytes /\ file.len \in Int
      /\ Carries(file.payload, origin.peer, origin.prefix)
      /\ file.magic = MAGIC /\ PayloadIsWhole(file)
  BY <1>1 DEF FileInv
<1>3. /\ DOMAIN origin' = DOMAIN origin /\ origin'.whole = FALSE
      /\ origin'.peer = origin.peer /\ origin'.prefix = origin.prefix
  BY <1>1, <1>2
<1>4. PayloadBytes(file.meta) \in Nat \ {0} /\ HeaderBytes \in Nat
  BY <1>2, PayloadPositive, CodecAssumption
<1>5. file.len = PREFIX + HeaderBytes + PayloadBytes(file.meta) /\ PREFIX = 10
  BY <1>2, <1>4 DEF PayloadIsWhole, HeaderEnd, PREFIX
<1>6. CASE \E k \in CutPoints(file) : file' = [file EXCEPT !.len = k]
  <2>1. PICK k \in CutPoints(file) : file' = [file EXCEPT !.len = k]
    BY <1>6
  <2>2. k \in Int /\ k # file.len
    BY <1>2, <1>4, <1>5 DEF CutPoints, HeaderEnd
  <2>3. /\ DOMAIN file' = DOMAIN file /\ file'.len = k /\ file'.meta = file.meta
        /\ file'.version = file.version /\ file'.header_len = file.header_len
        /\ file'.payload = file.payload
    BY <1>2, <2>1
  <2>4. ~PayloadIsWhole(file')
    BY <1>2, <1>4, <1>5, <2>2, <2>3 DEF PayloadIsWhole, HeaderEnd
  <2>. QED
    BY <1>1, <1>2, <1>3, <2>2, <2>3, <2>4
       DEF TransferInv, FileInv, AcceptedIffWholeAndAlike
<1>7. CASE file' = [file EXCEPT !.magic = "other"]
  <2>1. /\ DOMAIN file' = DOMAIN file /\ file'.magic # MAGIC /\ file'.meta = file.meta
        /\ file'.version = file.version /\ file'.header_len = file.header_len
        /\ file'.payload = file.payload
        /\ file'.len = file.len
    BY <1>2, <1>7 DEF MAGIC
  <2>. QED
    BY <1>1, <1>2, <1>3, <2>1 DEF TransferInv, FileInv, AcceptedIffWholeAndAlike
<1>. QED
  BY <1>6, <1>7 DEF Damage

(* Both outcomes of a fetch are decided by Accepts.                        *)
LEMMA FetchInv ==
  ASSUME FileInv, NEW p \in Prompts, Import(p) \/ Refuse(p)
  PROVE  TransferInv'
<1>1. stage = "stored" /\ prompt' = p /\ UNCHANGED <<file, origin>>
  BY DEF Import, Refuse, Fetching
<1>2. p \in Seq(Nat)
  BY TransferAssumption
<1>3. Accepts(file, p) <=> origin.whole /\ origin.peer = Local /\ IsPrefix(origin.prefix, p)
  BY <1>1, <1>2, AcceptsExactly
<1>4. FileInv'
  BY <1>1 DEF FileInv, PayloadIsWhole, HeaderEnd
<1>5. stage' \in {"imported", "refused"} /\ (stage' # "refused" <=> Accepts(file, p))
  BY DEF Import, Refuse
<1>. QED
  BY <1>1, <1>3, <1>4, <1>5 DEF TransferInv, AcceptedIffWholeAndAlike

LEMMA TransferStep == TransferInv /\ [TransferNext]_transferVars => TransferInv'
<1>. SUFFICES ASSUME TransferInv, [TransferNext]_transferVars PROVE TransferInv'
  OBVIOUS
<1>1. FileInv
  BY DEF TransferInv
<1>2. ASSUME NEW peer \in Peers, NEW p \in Prompts, Publish(peer, p) PROVE TransferInv'
  BY <1>2, PublishInv
<1>3. CASE Damage
  BY <1>1, <1>3, DamageInv
<1>4. ASSUME NEW p \in Prompts, Import(p) PROVE TransferInv'
  BY <1>1, <1>4, FetchInv
<1>5. ASSUME NEW p \in Prompts, Refuse(p) PROVE TransferInv'
  BY <1>1, <1>5, FetchInv
<1>6. CASE \/ PrefillSuffix
           \/ Attend
           \/ \E t \in {p[1] : p \in Prompts} : DecodeToken(t)
           \/ UNCHANGED transferVars
  <2>1. UNCHANGED <<file, origin, prompt>>
    BY <1>6 DEF PrefillSuffix, Attend, DecodeToken, transferVars, requestVars
  <2>2. stage' = stage \/ (stage = "imported" /\ stage' = "attending")
    BY <1>6 DEF PrefillSuffix, Attend, DecodeToken, transferVars
  <2>. QED
    BY <2>1, <2>2 DEF TransferInv, FileInv, AcceptedIffWholeAndAlike, PayloadIsWhole, HeaderEnd
<1>. QED
  BY <1>2, <1>3, <1>4, <1>5, <1>6 DEF TransferNext

(* bundle.rs:3-5: a stored file is imported exactly when it is whole and   *)
(* from an engine of the same release, model, layout and dtype for a       *)
(* prefix of the prompt, for any engines, prompts and header.              *)
THEOREM ImportedExactly == TransferSpec => []AcceptedIffWholeAndAlike
<1>1. TransferInit => TransferInv
  BY DEF TransferInit, TransferInv, FileInv, AcceptedIffWholeAndAlike
<1>2. TransferInv /\ [TransferNext]_transferVars => TransferInv'
  BY TransferStep
<1>3. TransferInv => AcceptedIffWholeAndAlike
  BY DEF TransferInv
<1>. QED
  BY <1>1, <1>2, <1>3, PTL DEF TransferSpec

-----------------------------------------------------------------------------
(* A forward pass calls the kernel.                                        *)
LEMMA ForwardCallsKernel ==
  ASSUME NEW toks, NEW n, ForwardLocal(toks, n)
  PROVE  \E c, k, q : Call(c, k, q)
BY DEF ForwardLocal

(* Every step of a transfer is a step of the kernel or leaves it alone.    *)
LEMMA TransferRefinesAttention == [TransferNext]_transferVars => [AttnNext]_attnVars
<1>. SUFFICES ASSUME [TransferNext]_transferVars PROVE [AttnNext]_attnVars
  OBVIOUS
<1>1. CASE \/ \E peer \in Peers, p \in Prompts : Publish(peer, p)
           \/ Damage
           \/ \E p \in Prompts : Import(p)
           \/ \E p \in Prompts : Refuse(p)
           \/ UNCHANGED transferVars
  BY <1>1 DEF Publish, Damage, Import, Refuse, Fetching, transferVars
<1>2. CASE PrefillSuffix
  BY <1>2, ForwardCallsKernel DEF PrefillSuffix, AttnNext
<1>3. CASE Attend
  BY <1>3 DEF Attend, AttnNext
<1>4. CASE \E t \in {p[1] : p \in Prompts} : DecodeToken(t)
  BY <1>4, ForwardCallsKernel DEF DecodeToken, AttnNext
<1>. QED
  BY <1>1, <1>2, <1>3, <1>4 DEF TransferNext

(* cpu.rs:47, with the calls an engine makes: after an import and while    *)
(* decoding, attention is exact over what the pool holds.                  *)
THEOREM ImportedIsAttendedExactly == TransferSpec => []AttentionExact
<1>1. TransferInit => AttnInit
  BY DEF TransferInit
<1>2. [TransferNext]_transferVars => [AttnNext]_attnVars
  BY TransferRefinesAttention
<1>3. TransferSpec => AttnSpec
  BY <1>1, <1>2, PTL DEF TransferSpec, AttnSpec
<1>. QED
  BY <1>3, StreamedAttentionExact, PTL

-----------------------------------------------------------------------------
(* The importer: its blocks are accounted for, everything it caches is     *)
(* mapped, and until the import its pool and registry are those of a new   *)
(* cache.                                                                  *)
ImporterInv ==
  /\ KvCacheType(importer) /\ Accounted(importer)
  /\ Cached(importer) \subseteq Table(importer)
  /\ importer.len \in 0 .. TableCapacity(importer)
  /\ stage \in {"empty", "stored", "refused"} => Unused(importer)

TokenSet == Nat \cup {p[1] : p \in Prompts}

RequestInv ==
  /\ stage \in {"empty", "stored", "imported", "refused", "attending"}
  /\ file.len \in Nat
  /\ prompt \in Seq(TokenSet) /\ tokens \in Seq(TokenSet)
  /\ Len(tokens) \in Len(prompt) .. Len(prompt) + MaxDecoded

TypesInv == ImporterInv /\ RequestInv

LEMMA TypesImplyTypeOK == TypesInv => TransferTypeOK
<1> SUFFICES ASSUME TypesInv PROVE TransferTypeOK
  OBVIOUS
<1>1. ToSet(importer.free) = Blocks \ Table(importer) /\ Table(importer) \subseteq Blocks
  BY TypeRecounts DEF TypesInv, ImporterInv, Accounted
<1>2. \A b \in Blocks : (b \in ToSet(importer.free)) # (b \in ToSet(importer.blocks))
  BY <1>1 DEF Table
<1> QED
  BY <1>2 DEF TypesInv, ImporterInv, RequestInv, TransferTypeOK

LEMMA TypesInit == TransferInit => TypesInv
<1> SUFFICES ASSUME TransferInit PROVE TypesInv
  OBVIOUS
<1>1. PICK order \in SetToSeqs(Blocks) : importer = [NewKvCache EXCEPT !.free = order]
  BY DEF TransferInit
<1>2. /\ KvCacheType(importer) /\ Accounted(importer) /\ Unused(importer)
      /\ importer.blocks = Empty /\ importer.len = 0
  BY <1>1, NewCacheAccount
<1>3. Cached(importer) = {}
  BY <1>2 DEF Unused, Cached
<1>4. TableCapacity(importer) = 0
  BY <1>2, KvCacheAssumption DEF TableCapacity, Empty
<1>5. ImporterInv
  BY <1>2, <1>3, <1>4 DEF ImporterInv
<1>6. RequestInv
  <2>1. Empty \in Seq(TokenSet) /\ Len(Empty) = 0
    BY EmptySeq DEF Empty
  <2> QED
    BY <2>1, TransferAssumption DEF TransferInit, RequestInv
<1> QED
  BY <1>5, <1>6 DEF TypesInv

(* Publishing and damage leave the importer and the request alone.         *)
LEMMA PublishTypes ==
  ASSUME TypesInv, NEW peer \in Peers, NEW p \in Prompts, Publish(peer, p), FileInv'
  PROVE  TypesInv'
<1>1. /\ stage = "empty" /\ stage' = "stored" /\ UNCHANGED <<importer, prompt, tokens>>
      /\ file'.len = PREFIX + HeaderBytes + PayloadBytes(file'.meta)
  BY DEF Publish, requestVars, Encode
<1>2. PayloadBytes(file'.meta) \in Nat /\ HeaderBytes \in Nat
  <2>1. file'.meta = HeaderOf(origin'.peer, origin'.prefix) /\ Published(origin'.peer, origin'.prefix)
    BY <1>1 DEF FileInv
  <2> QED
    BY <2>1, PayloadPositive, CodecAssumption
<1>3. file'.len \in Nat
  BY <1>1, <1>2 DEF PREFIX
<1>4. ImporterInv'
  BY <1>1 DEF TypesInv, ImporterInv
<1> QED
  BY <1>1, <1>3, <1>4 DEF TypesInv, RequestInv

LEMMA DamageTypes ==
  ASSUME TypesInv, FileInv, Damage
  PROVE  TypesInv'
<1>1. /\ stage = "stored" /\ stage' = stage /\ UNCHANGED <<importer, prompt, tokens>>
      /\ origin.whole
  BY DEF Damage, requestVars
<1>2. /\ DOMAIN file = {"magic", "version", "header_len", "meta", "payload", "len"}
      /\ file.header_len = HeaderBytes /\ file.len \in Nat /\ PayloadIsWhole(file)
      /\ PayloadBytes(file.meta) \in Nat \ {0} /\ HeaderBytes \in Nat \ {0}
  <2>1. file.meta = HeaderOf(origin.peer, origin.prefix) /\ Published(origin.peer, origin.prefix)
    BY <1>1 DEF FileInv
  <2> QED
    BY <1>1, <2>1, PayloadPositive, CodecAssumption DEF FileInv, TypesInv, RequestInv
<1>3. file.len = PREFIX + HeaderBytes + PayloadBytes(file.meta) /\ PREFIX = 10
  BY <1>2 DEF PayloadIsWhole, HeaderEnd, PREFIX
<1>4. file'.len \in Nat
  <2>1. \A n \in CutPoints(file) : n \in Nat
    BY <1>2, <1>3 DEF CutPoints, HeaderEnd
  <2>2. \/ \E n \in CutPoints(file) : file' = [file EXCEPT !.len = n]
        \/ file' = [file EXCEPT !.magic = "other"]
    BY DEF Damage
  <2> QED
    BY <1>2, <2>1, <2>2
<1>5. ImporterInv'
  BY <1>1 DEF TypesInv, ImporterInv
<1> QED
  BY <1>1, <1>4, <1>5 DEF TypesInv, RequestInv

LEMMA RefuseTypes ==
  ASSUME TypesInv, NEW p \in Prompts, Refuse(p)
  PROVE  TypesInv'
<1>1. /\ stage = "stored" /\ stage' = "refused" /\ prompt' = p /\ tokens' = p
      /\ UNCHANGED <<importer, file>>
  BY DEF Refuse, Fetching
<1>2. p \in Seq(TokenSet) /\ Len(p) \in Nat
  <2>1. p \in Seq(Nat)
    BY TransferAssumption
  <2> QED
    BY <2>1 DEF TokenSet
<1>3. Len(p) \in Len(p) .. Len(p) + MaxDecoded
  BY <1>2, TransferAssumption
<1>4. ImporterInv'
  BY <1>1 DEF TypesInv, ImporterInv
<1> QED
  BY <1>1, <1>2, <1>3, <1>4 DEF TypesInv, RequestInv

(* What an accepted file is imported as: n blocks, whose items are the     *)
(* columns this engine would compute for the prompt.                       *)
OwnColumns(p, m) == [pos \in 1 .. m |-> Column(Local, SubSeq(p, 1, pos))]

Imports(p, n, m) ==
  /\ n \in Nat /\ m \in Nat /\ m = n * BlockSize /\ m <= Len(p)
  /\ ItemsOf(Decode(file)) = OwnColumns(p, m)

LEMMA AcceptedItems ==
  ASSUME FileInv, stage # "empty", NEW p \in Seq(Nat), Accepts(file, p)
  PROVE  \E n, m : Imports(p, n, m)
<1> DEFINE prefix == origin.prefix
           m == Len(prefix)
           n == m \div BlockSize
<1>1. origin.peer = Local /\ IsPrefix(prefix, p)
  BY AcceptsExactly
<1>2. /\ Published(Local, prefix) /\ file.meta = HeaderOf(Local, prefix)
      /\ Carries(file.payload, Local, prefix)
  BY <1>1 DEF FileInv
<1>3. /\ prefix \in Seq(Nat) /\ m \in Nat /\ m % BlockSize = 0
  BY <1>2, TransferAssumption, LenProperties DEF Published
<1>4. m <= Len(p) /\ prefix = SubSeq(p, 1, m)
  BY <1>1, <1>3, SubSeqFull DEF IsPrefix
<1>5. n \in Nat /\ m = n * BlockSize
  <2> HIDE DEF m
  <2> QED
    BY <1>3, KvCacheAssumption, DivExact
<1>6. ItemsOf(Decode(file)) = [pos \in 1 .. m |-> Column(Local, SubSeq(prefix, 1, pos))]
  BY <1>2, DecodedItems
<1>7. \A pos \in 1 .. m : SubSeq(prefix, 1, pos) = SubSeq(p, 1, pos)
  <2> TAKE pos \in 1 .. m
  <2>1. pos \in 0 .. m
    OBVIOUS
  <2> HIDE DEF prefix, m
  <2> QED
    BY <1>3, <1>4, <2>1, PrefixOfPrefix
<1> HIDE DEF prefix, m, n
<1>8. Imports(p, n, m)
  BY <1>3, <1>4, <1>5, <1>6, <1>7 DEF Imports, OwnColumns
<1> QED
  BY <1>8

LEMMA ImportInv ==
  ASSUME TypesInv, FileInv, NEW p \in Prompts, Import(p)
  PROVE  TypesInv' /\ HoldsOwnKv'
<1> DEFINE items == ItemsOf(Decode(file))
<1>1. /\ stage = "stored" /\ stage' = "imported" /\ prompt' = p /\ tokens' = p
      /\ UNCHANGED file /\ Accepts(file, p) /\ ImportFits(importer, items)
      /\ importer' = ImportPrefixBundle(importer, p, items)
  BY DEF Import, Fetching
<1>2. p \in Seq(Nat) /\ p \in Seq(TokenSet) /\ Len(p) \in Nat
  <2>1. p \in Seq(Nat)
    BY TransferAssumption
  <2> QED
    BY <2>1 DEF TokenSet
<1>3. PICK n, m : Imports(p, n, m)
  BY <1>1, <1>2, AcceptedItems
<1>4. n \in Nat /\ m \in Nat /\ m = n * BlockSize /\ m <= Len(p) /\ items = OwnColumns(p, m)
  BY <1>3 DEF Imports
<1> HIDE DEF items
<1> DEFINE W == {Column(Local, SubSeq(p, 1, pos)) : pos \in 1 .. m}
<1>5. Batch(n, m, W, items) /\ Len(items) = m
  <2>1. items \in [1 .. m -> W]
    BY <1>4 DEF OwnColumns
  <2> HIDE DEF W
  <2> QED
    BY <1>4, <2>1, SeqDef, LenProperties DEF Batch
<1>6. KvCacheType(importer) /\ Accounted(importer) /\ Unused(importer)
  BY <1>1 DEF TypesInv, ImporterInv
<1>7. IsRegistry(importer.registry) /\ Cached(importer) = {}
  BY <1>6 DEF Unused, IsRegistry, Cached
<1>8. /\ KvCacheType(importer') /\ Accounted(importer')
      /\ importer'.len = m /\ Len(importer'.blocks) = n
      /\ importer'.blocks = ImportBlocks(importer, items, n).blocks
      /\ importer'.pool = ImportBlocks(importer, items, n).pool
      /\ Cached(importer') \subseteq Cached(importer) \cup Table(importer')
  BY <1>1, <1>2, <1>4, <1>5, <1>6, <1>7, ImportAccount
<1>9. Holds(importer', items, m)
  <2>1. importer.pool \in [PoolSlots -> {Empty}]
    BY <1>6 DEF Unused
  <2> HIDE DEF W
  <2> QED
    BY ONLY <1>1, <1>5, <1>6, <1>8, <2>1, ImportReads
<1>10. TypesInv'
  <2>1. importer'.len \in 0 .. TableCapacity(importer')
    BY <1>4, <1>8 DEF TableCapacity
  <2>2. ImporterInv'
    BY <1>1, <1>7, <1>8, <2>1 DEF ImporterInv
  <2>3. Len(p) \in Len(p) .. Len(p) + MaxDecoded
    BY <1>2, TransferAssumption
  <2> QED
    BY <1>1, <1>2, <2>2, <2>3 DEF TypesInv, RequestInv
<1>11. HoldsOwnKv'
  <2> SUFFICES ASSUME NEW pos \in 0 .. m - 1
               PROVE  importer'.pool[Slot(importer', pos)] = Column(Local, SubSeq(p, 1, pos + 1))
    BY <1>1, <1>8 DEF HoldsOwnKv, Slot, BlockAt
  <2>1. pos + 1 \in 1 .. m
    BY <1>4
  <2> QED
    BY <1>4, <1>9, <2>1 DEF OwnColumns, Holds
<1> QED
  BY <1>10, <1>11

(* A forward pass extends the table and leaves the registry alone.         *)
LEMMA ForwardTypes ==
  ASSUME ImporterInv, NEW toks, NEW n, ForwardLocal(toks, n), stage' = "attending"
  PROVE  ImporterInv'
<1>1. CanAllocateKv(importer, n) /\ \E q : Call(importer', n, q)
  BY DEF ForwardLocal
<1>2. PICK pool : importer' = [AllocateKv(importer, n) EXCEPT !.pool = pool]
  BY DEF ForwardLocal
<1>3. n \in Nat
  BY <1>1 DEF Call, WellFormedCall
<1>4. KvCacheType(importer) /\ Accounted(importer) /\ Cached(importer) \subseteq Table(importer)
  BY DEF ImporterInv
<1>5. /\ Extends(importer, importer') /\ importer'.len = importer.len + n
      /\ TableCapacity(importer') >= importer'.len
  BY <1>1, <1>2, <1>3, <1>4, ReserveAccount
<1>6. Table(importer) \subseteq Table(importer')
  <2>1. /\ importer.blocks \in Seq(Blocks) /\ importer'.blocks \in Seq(Blocks)
        /\ Len(importer.blocks) <= Len(importer'.blocks)
        /\ \A i \in 1 .. Len(importer.blocks) : importer'.blocks[i] = importer.blocks[i]
    BY <1>4, <1>5, TypeRecounts DEF Extends
  <2>2. /\ Len(importer.blocks) \in Nat /\ Len(importer'.blocks) \in Nat
        /\ DOMAIN importer.blocks = 1 .. Len(importer.blocks)
        /\ DOMAIN importer'.blocks = 1 .. Len(importer'.blocks)
    BY <2>1, LenProperties
  <2> QED
    BY <2>1, <2>2 DEF Table, ToSet
<1>7. Cached(importer') = Cached(importer)
  BY <1>5 DEF Extends, Cached
<1>8. importer'.len \in 0 .. TableCapacity(importer')
  <2>1. importer.len \in Nat /\ TableCapacity(importer') \in Int
    BY <1>4, <1>5, TypeRecounts, LenProperties, KvCacheAssumption DEF Extends, TableCapacity
  <2> QED
    BY <1>3, <1>5, <2>1
<1> QED
  BY <1>4, <1>5, <1>6, <1>7, <1>8 DEF ImporterInv, Extends

LEMMA TypesStep ==
  ASSUME TransferInv, TypesInv, TransferInv', [TransferNext]_transferVars
  PROVE  TypesInv'
<1>1. FileInv /\ FileInv' /\ ImporterInv /\ RequestInv
  BY DEF TransferInv, TypesInv
<1>2. ASSUME NEW peer \in Peers, NEW p \in Prompts, Publish(peer, p) PROVE TypesInv'
  BY <1>1, <1>2, PublishTypes
<1>3. CASE Damage
  BY <1>1, <1>3, DamageTypes
<1>4. ASSUME NEW p \in Prompts, Import(p) PROVE TypesInv'
  BY <1>1, <1>4, ImportInv
<1>5. ASSUME NEW p \in Prompts, Refuse(p) PROVE TypesInv'
  BY <1>5, RefuseTypes
<1>6. CASE PrefillSuffix
  <2>1. stage' = "attending" /\ UNCHANGED <<file, prompt, tokens>> /\ ImporterInv'
    BY <1>1, <1>6, ForwardTypes DEF PrefillSuffix
  <2> QED
    BY <1>1, <2>1 DEF TypesInv, RequestInv
<1>7. CASE Attend
  BY <1>1, <1>7 DEF Attend, requestVars, TypesInv, RequestInv, ImporterInv
<1>8. ASSUME NEW t \in {p[1] : p \in Prompts}, DecodeToken(t) PROVE TypesInv'
  <2>1. /\ stage' = "attending" /\ UNCHANGED <<file, prompt>> /\ ForwardLocal(tokens', 1)
        /\ tokens' = Append(tokens, t) /\ Len(tokens) - Len(prompt) < MaxDecoded
    BY <1>8 DEF DecodeToken
  <2>2. ImporterInv'
    BY <1>1, <2>1, ForwardTypes
  <2>3. t \in TokenSet
    BY DEF TokenSet
  <2>4. tokens' \in Seq(TokenSet) /\ Len(tokens') = Len(tokens) + 1
    BY <1>1, <2>1, <2>3, AppendProperties DEF RequestInv
  <2>5. Len(tokens) \in Nat /\ Len(prompt) \in Nat /\ MaxDecoded \in Nat
    BY <1>1, LenProperties, TransferAssumption DEF RequestInv
  <2>6. Len(tokens') \in Len(prompt) .. Len(prompt) + MaxDecoded
    BY <1>1, <2>1, <2>4, <2>5 DEF RequestInv
  <2> QED
    BY <1>1, <2>1, <2>2, <2>4, <2>6 DEF TypesInv, RequestInv
<1>9. CASE UNCHANGED transferVars
  BY <1>1, <1>9 DEF transferVars, requestVars, TypesInv, RequestInv, ImporterInv
<1> QED
  BY <1>2, <1>3, <1>4, <1>5, <1>6, <1>7, <1>8, <1>9 DEF TransferNext

(* Only an import leads to the stage HoldsOwnKv speaks of.                 *)
LEMMA OwnKvStep ==
  ASSUME TransferInv, TypesInv, HoldsOwnKv, [TransferNext]_transferVars
  PROVE  HoldsOwnKv'
<1>1. ASSUME NEW p \in Prompts, Import(p) PROVE HoldsOwnKv'
  BY <1>1, ImportInv DEF TransferInv
<1>2. CASE \/ \E peer \in Peers, p \in Prompts : Publish(peer, p)
           \/ Damage
           \/ \E p \in Prompts : Refuse(p)
           \/ PrefillSuffix
           \/ \E t \in {p[1] : p \in Prompts} : DecodeToken(t)
  <2>1. stage' # "imported"
    BY <1>2 DEF Publish, Damage, Refuse, PrefillSuffix, DecodeToken
  <2> QED
    BY <2>1 DEF HoldsOwnKv
<1>3. CASE Attend \/ UNCHANGED transferVars
  <2>1. UNCHANGED <<stage, importer, prompt>>
    BY <1>3 DEF Attend, transferVars, requestVars
  <2> QED
    BY <2>1 DEF HoldsOwnKv, Slot, BlockAt
<1> QED
  BY <1>1, <1>2, <1>3 DEF TransferNext

(* The types of a transfer, its blocks mapped or free, never both, and a   *)
(* table that has room for every live position.                            *)
THEOREM TransferTypes == TransferSpec => []TransferTypeOK
<1>1. TransferInit => TransferInv /\ TypesInv
  BY TypesInit DEF TransferInit, TransferInv, FileInv, AcceptedIffWholeAndAlike
<1>2. TransferInv /\ TypesInv /\ [TransferNext]_transferVars => (TransferInv /\ TypesInv)'
  BY TransferStep, TypesStep
<1> QED
  BY <1>1, <1>2, TypesImplyTypeOK, PTL DEF TransferSpec

(* manager.rs:149-150: whatever the block size, the layers, the pool and   *)
(* the order its blocks are taken in, an imported prefix is, position by   *)
(* position, the KV this engine computes itself.                           *)
THEOREM ImportedIsOwn == TransferSpec => []HoldsOwnKv
<1>1. TransferInit => TransferInv /\ TypesInv /\ HoldsOwnKv
  BY TypesInit DEF TransferInit, TransferInv, FileInv, AcceptedIffWholeAndAlike, HoldsOwnKv
<1>2. TransferInv /\ TypesInv /\ HoldsOwnKv /\ [TransferNext]_transferVars
        => (TransferInv /\ TypesInv /\ HoldsOwnKv)'
  BY TransferStep, TypesStep, OwnKvStep
<1> QED
  BY <1>1, <1>2, PTL DEF TransferSpec
=============================================================================
