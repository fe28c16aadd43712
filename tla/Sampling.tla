------------------------------ MODULE Sampling ------------------------------
(***************************************************************************)
(* The choice of the next token: LogitsSampler, arg_max, softmax and       *)
(* apply_repeat_penalty of sampling.rs.  Operators only; module Chat draws *)
(* with them.                                                              *)
(*                                                                         *)
(* A logit is an integer or NaN.  A probability is a natural weight, a     *)
(* function of how far the logit is below the largest one; it is 0 when    *)
(* the exponential underflows.  Sums are exact, and what rounding can do   *)
(* to the last comparison of sample is an outcome of its own.  The random  *)
(* number is any of 0.0 <= target < 1.0.                                   *)
(***************************************************************************)
EXTENDS Integers, SequencesExt

CONSTANTS
  VocabSize,
  NaN,
  None,          \* an absent option
  Weight(_, _),  \* of a distance from the largest logit, at a temperature
  RepeatPenalty, \* divides a logit that is not negative, multiplies others
  RepeatLastN

ASSUME SamplingAssumption ==
  /\ VocabSize \in Nat \ {0}
  /\ RepeatPenalty \in Nat \ {0}
  /\ RepeatLastN \in Nat

Tokens == 0 .. VocabSize - 1

WeightOfAll(w) == SumFunction(w)

-----------------------------------------------------------------------------
(* apply_repeat_penalty over the last repeat_last_n of all tokens; NaN is  *)
(* not >= 0 and stays NaN.                                                 *)
Penalised(logits, all_tokens) ==
  LET start == Len(all_tokens) - Min({RepeatLastN, Len(all_tokens)})
      seen == ToSet(SubSeq(all_tokens, start + 1, Len(all_tokens))) IN
  [t \in Tokens |->
     CASE t \notin seen \/ logits[t] = NaN -> logits[t]
       [] t \in seen /\ logits[t] # NaN /\ logits[t] >= 0 -> logits[t] \div RepeatPenalty
       [] OTHER -> logits[t] * RepeatPenalty]

Comparable(logits) == {t \in Tokens : logits[t] # NaN}

(* max_by keeps the last of several maxima; without any number, token 0.   *)
ArgMax(logits) ==
  LET top == Max({logits[t] : t \in Comparable(logits)}) IN
  IF Comparable(logits) = {} THEN 0
  ELSE Max({t \in Comparable(logits) : logits[t] = top})

(* softmax of the scaled logits; one NaN makes every probability NaN.      *)
Softmax(logits, temperature) ==
  LET top == Max({logits[t] : t \in Tokens}) IN
  [t \in Tokens |-> Weight(top - logits[t], temperature)]

Orders == SetToSeqs(Tokens)

(* sort_unstable_by: equal probabilities come in any order.                *)
Ranked(w) ==
  {order \in Orders :
     \A i, j \in 1 .. VocabSize : i < j => w[order[i]] >= w[order[j]]}

(* Everything from rank n on is set to 0.                                  *)
KeepRanks(w, order, n) ==
  [t \in Tokens |-> IF \E i \in 1 .. n : i <= VocabSize /\ order[i] = t THEN w[t] ELSE 0]

(* Mutant of TopK: one rank too many is kept.                              *)
TopKPlusOne(w, order, k) == IF k = None THEN w ELSE KeepRanks(w, order, k + 1)

TopK(w, order, k) == IF k = None THEN w ELSE KeepRanks(w, order, k)

(* p is a fraction <<num, den>> of total, the weight before top_k.         *)
Reaches(w, order, n, p, total) ==
  WeightOfAll(KeepRanks(w, order, n)) * p[2] >= p[1] * total

TopP(w, order, p, total) ==
  IF p = None \/ \A n \in 1 .. VocabSize : ~Reaches(w, order, n, p, total) THEN w
  ELSE KeepRanks(w, order, Min({n \in 1 .. VocabSize : Reaches(w, order, n, p, total)}))

(* The loop returns the first token whose cumulative probability reaches   *)
(* the target: token 0, kept or not, when the target is 0.0; and the last  *)
(* token when the sum of several quotients is rounded below the target.    *)
EdgeTokens(w) ==
  {0} \cup (IF Cardinality({t \in Tokens : w[t] > 0}) > 1 THEN {VocabSize - 1} ELSE {})

(* sample: every token it can return.  Temperature 0 stands for any that   *)
(* is not positive, and for one so small that the quotients overflow.      *)
Samples(logits, params) ==
  LET w == Softmax(logits, params.temperature)
      kept(order) == TopP(TopK(w, order, params.top_k), order, params.top_p, WeightOfAll(w))
      drawn(v) == IF WeightOfAll(v) = 0 THEN {ArgMax(logits)}
                  ELSE {t \in Tokens : v[t] > 0} \cup EdgeTokens(v) IN
  IF params.temperature = 0 \/ Comparable(logits) # Tokens THEN {ArgMax(logits)}
  ELSE UNION {drawn(kept(order)) : order \in Ranked(w)}

-----------------------------------------------------------------------------
(* What the options mean, without ranks: fewer than k tokens are heavier,  *)
(* and the heavier ones together weigh less than p of all.                 *)
Heavier(w, t) == {u \in Tokens : w[u] > w[t]}

InNucleus(logits, params, t) ==
  LET w == Softmax(logits, params.temperature)
      above == SumFunctionOnSet(w, Heavier(w, t)) IN
  /\ w[t] > 0
  /\ params.top_k # None => Cardinality(Heavier(w, t)) < params.top_k
  /\ params.top_p # None =>
       \/ Heavier(w, t) = {}
       \/ above * params.top_p[2] < params.top_p[1] * WeightOfAll(w)

(* No choice is left: greedy, nothing kept, or logits that are no numbers. *)
Forced(logits, params) ==
  params.temperature = 0 \/ params.top_k = 0 \/ Comparable(logits) # Tokens
=============================================================================
