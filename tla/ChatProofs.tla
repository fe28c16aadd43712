----------------------------- MODULE ChatProofs -----------------------------
(***************************************************************************)
(* Proofs about chat completions, for every number of requests, every body *)
(* a client may send, every network and every vocabulary: the client of a  *)
(* stream reads the pieces in the order they were generated, [DONE] says   *)
(* exactly that all of them are there, the usage is the number of pieces,  *)
(* and a sampled token is one the options allow.                           *)
(*                                                                         *)
(* The first part is about the operators of Sampling, the second about the *)
(* protocol between the generation, the channel and the response.          *)
(***************************************************************************)
EXTENDS Chat, FoldTheorems, SequenceTheorems

(* Rows of logits, and the options that sample reads.                      *)
Logits == [Tokens -> {NaN} \cup Int]

Options ==
  [temperature : Nat, top_p : {None} \cup (Nat \X Nat), top_k : OptionalNat,
   max_tokens : Nat, stop : SUBSET Seq(STRING)]

(* What softmax promises: no probability is negative, and the largest does *)
(* not underflow.                                                          *)
NaturalWeights ==
  \A temperature \in Nat : temperature > 0 =>
    /\ \A gap \in Nat : Weight(gap, temperature) \in Nat
    /\ Weight(0, temperature) > 0

-----------------------------------------------------------------------------
(* Maxima and minima exist.                                                *)
LEMMA MaxOfFinite ==
  ASSUME NEW S, IsFiniteSet(S), S \subseteq Int, S # {}
  PROVE  Max(S) \in S /\ \A x \in S : Max(S) >= x
BY LargestExists DEF Max

LEMMA MinOfNaturals ==
  ASSUME NEW S, S \subseteq Nat, S # {}
  PROVE  Min(S) \in S /\ \A x \in S : Min(S) <= x
BY LeastNatural DEF Min

LEMMA TokensFinite ==
  /\ VocabSize \in Nat \ {0}
  /\ Tokens \subseteq Nat
  /\ 0 \in Tokens /\ VocabSize - 1 \in Tokens
  /\ IsFiniteSet(Tokens) /\ Cardinality(Tokens) = VocabSize
<1>1. VocabSize \in Nat \ {0}
  BY SamplingAssumption
<1>2. IsFiniteSet(0 .. VocabSize - 1) /\ Cardinality(0 .. VocabSize - 1) = VocabSize
  BY <1>1, FS_Interval
<1> QED
  BY <1>1, <1>2 DEF Tokens

(* The largest of some logits is one of them.                              *)
LEMMA TopLogit ==
  ASSUME NEW logits, NEW T, T \subseteq Tokens, T # {}, \A t \in T : logits[t] \in Int
  PROVE  /\ \E t \in T : logits[t] = Max({logits[u] : u \in T})
         /\ \A t \in T : Max({logits[u] : u \in T}) >= logits[t]
         /\ Max({logits[u] : u \in T}) \in Int
<1> DEFINE S == {logits[u] : u \in T}
<1>1. IsFiniteSet(T)
  BY TokensFinite, FS_Subset
<1>2. IsFiniteSet(S)
  <2> DEFINE f == [u \in T |-> logits[u]]
  <2>1. f \in Surjection(T, S)
    BY DEF Surjection
  <2> HIDE DEF f, S
  <2> QED
    BY <1>1, <2>1, FS_Surjection
<1>3. S \subseteq Int /\ S # {}
  OBVIOUS
<1> HIDE DEF S
<1>4. Max(S) \in S /\ \A x \in S : Max(S) >= x
  BY <1>2, <1>3, MaxOfFinite
<1> QED
  BY <1>3, <1>4 DEF S

(* arg_max returns a token, whatever the logits are.                       *)
LEMMA ArgMaxIsToken ==
  ASSUME NEW logits \in Logits
  PROVE  ArgMax(logits) \in Tokens
<1>1. CASE Comparable(logits) = {}
  BY <1>1, TokensFinite DEF ArgMax
<1>2. CASE Comparable(logits) # {}
  <2> DEFINE T == Comparable(logits)
             top == Max({logits[t] : t \in T})
             S == {t \in T : logits[t] = top}
  <2>1. T \subseteq Tokens /\ \A t \in T : logits[t] \in Int
    BY DEF Comparable, Logits
  <2>2. S # {}
    BY <1>2, <2>1, TopLogit
  <2>3. IsFiniteSet(S) /\ S \subseteq Int
    <3>1. S \in SUBSET Tokens
      BY <2>1
    <3> HIDE DEF S
    <3>2. IsFiniteSet(S)
      BY <3>1, TokensFinite, FS_Subset
    <3> QED
      BY <3>1, <3>2, TokensFinite
  <2>4. Max(S) \in S
    BY <2>2, <2>3, MaxOfFinite
  <2>5. ArgMax(logits) = Max(S)
    BY <1>2 DEF ArgMax
  <2> QED
    BY <2>1, <2>4, <2>5
<1> QED
  BY <1>1, <1>2

(* sample returns a token.                                                 *)
LEMMA SamplesAreTokens ==
  ASSUME NEW logits \in Logits, NEW params
  PROVE  Samples(logits, params) \subseteq Tokens
<1>1. \A v : EdgeTokens(v) \subseteq Tokens
  BY TokensFinite DEF EdgeTokens
<1> QED
  BY <1>1, ArgMaxIsToken DEF Samples

(* The penalty keeps rows rows.                                            *)
LEMMA PenalisedIsRow ==
  ASSUME NEW logits \in Logits, NEW all_tokens
  PROVE  Penalised(logits, all_tokens) \in Logits
<1>1. RepeatPenalty \in Nat \ {0}
  BY SamplingAssumption
<1>2. \A x \in Int : x \div RepeatPenalty \in Int /\ x * RepeatPenalty \in Int
  BY <1>1
<1>3. \A t \in Tokens : logits[t] \in {NaN} \cup Int
  BY DEF Logits
<1> HIDE DEF Tokens
<1>4. \A seen : [t \in Tokens |->
         CASE t \notin seen \/ logits[t] = NaN -> logits[t]
           [] t \in seen /\ logits[t] # NaN /\ logits[t] >= 0 -> logits[t] \div RepeatPenalty
           [] OTHER -> logits[t] * RepeatPenalty] \in Logits
  BY <1>2, <1>3 DEF Logits
<1> QED
  BY <1>4 DEF Penalised

-----------------------------------------------------------------------------
(* An order of the vocabulary reaches every token once.                    *)
LEMMA OrderIsOnto ==
  ASSUME NEW order \in Orders
  PROVE  /\ order \in [1 .. VocabSize -> Tokens]
         /\ \A i, j \in 1 .. VocabSize : order[i] = order[j] => i = j
         /\ \A t \in Tokens : \E i \in 1 .. VocabSize : order[i] = t
<1> DEFINE D == 1 .. VocabSize
<1>1. IsFiniteSet(D) /\ Cardinality(D) = Cardinality(Tokens) /\ Cardinality(Tokens) = VocabSize
  BY TokensFinite, FS_Interval
<1>2. order \in [D -> Tokens] /\ \A i, j \in D : i # j => order[i] # order[j]
  BY <1>1 DEF Orders, SetToSeqs
<1> HIDE DEF D
<1>3. order \in Injection(D, Tokens)
  BY <1>2 DEF Injection, IsInjective
<1>4. order \in Surjection(D, Tokens)
  BY <1>1, <1>3, TokensFinite, FS_Injection
<1> QED
  BY <1>2, <1>4 DEF D, Surjection

(* The tokens heavier than the one of rank i have smaller ranks, so there  *)
(* are fewer than i of them.                                               *)
LEMMA HeavierRanks ==
  ASSUME NEW w, \A t \in Tokens : w[t] \in Nat, NEW order \in Ranked(w),
         NEW i \in 1 .. VocabSize
  PROVE  /\ \A u \in Heavier(w, order[i]) : \E j \in 1 .. VocabSize : j < i /\ order[j] = u
         /\ IsFiniteSet(Heavier(w, order[i]))
         /\ Cardinality(Heavier(w, order[i])) < i
<1>1. /\ order \in [1 .. VocabSize -> Tokens]
      /\ \A t \in Tokens : \E j \in 1 .. VocabSize : order[j] = t
  BY OrderIsOnto DEF Ranked
<1>2. \A j, k \in 1 .. VocabSize : j < k => w[order[j]] >= w[order[k]]
  BY DEF Ranked
<1> DEFINE H == Heavier(w, order[i])
<1>3. \A u \in H : \E j \in 1 .. VocabSize : j < i /\ order[j] = u
  <2> SUFFICES ASSUME NEW u \in H PROVE \E j \in 1 .. VocabSize : j < i /\ order[j] = u
    OBVIOUS
  <2>1. u \in Tokens /\ w[u] > w[order[i]]
    BY DEF Heavier
  <2>2. PICK j \in 1 .. VocabSize : order[j] = u
    BY <1>1, <2>1
  <2>3. order[i] \in Tokens /\ VocabSize \in Nat
    BY <1>1, TokensFinite
  <2>4. w[u] \in Nat /\ w[order[i]] \in Nat
    BY <2>1, <2>3
  <2>5. j # i /\ ~(i < j)
    BY <1>2, <2>1, <2>2, <2>4
  <2> QED
    BY <2>2, <2>3, <2>5
<1>4. IsFiniteSet(1 .. i - 1) /\ Cardinality(1 .. i - 1) = i - 1
  BY FS_Interval
<1>5. PICK rank : rank = [u \in H |-> CHOOSE j \in 1 .. VocabSize : j < i /\ order[j] = u]
  OBVIOUS
<1>6. \A u \in H : rank[u] \in 1 .. i - 1 /\ order[rank[u]] = u
  <2> SUFFICES ASSUME NEW u \in H PROVE rank[u] \in 1 .. i - 1 /\ order[rank[u]] = u
    OBVIOUS
  <2>1. rank[u] \in 1 .. VocabSize /\ rank[u] < i /\ order[rank[u]] = u
    BY <1>3, <1>5
  <2> QED
    BY <2>1
<1> HIDE DEF H
<1>7. rank \in Injection(H, 1 .. i - 1)
  BY <1>5, <1>6 DEF Injection, IsInjective
<1>8. IsFiniteSet(H) /\ Cardinality(H) <= i - 1
  BY <1>4, <1>7, FS_Injection
<1>9. Cardinality(H) \in Nat
  BY <1>8, FS_CardinalityType
<1>10. Cardinality(H) < i
  BY <1>8, <1>9
<1> QED
  BY <1>3, <1>8, <1>10 DEF H

-----------------------------------------------------------------------------
(* Weights that lost all ranks above n, or nothing.                        *)
Kept(v, w) == \A t \in Tokens : v[t] = w[t] \/ v[t] = 0

LEMMA KeepRanksWeights ==
  ASSUME NEW w, NEW order, NEW n
  PROVE  /\ DOMAIN KeepRanks(w, order, n) = Tokens
         /\ \A t \in Tokens :
              KeepRanks(w, order, n)[t] =
                IF \E i \in 1 .. n : i <= VocabSize /\ order[i] = t THEN w[t] ELSE 0
BY DEF KeepRanks

(* A token of rank i that top_k keeps has fewer than k heavier ones.       *)
LEMMA TopKKeeps ==
  ASSUME NEW w, \A t \in Tokens : w[t] \in Nat, DOMAIN w = Tokens,
         NEW order \in Ranked(w), NEW k \in OptionalNat
  PROVE  /\ DOMAIN TopK(w, order, k) = Tokens
         /\ Kept(TopK(w, order, k), w)
         /\ \A i \in 1 .. VocabSize :
              k = None \/ i <= k => TopK(w, order, k)[order[i]] = w[order[i]]
         /\ \A i \in 1 .. VocabSize : TopK(w, order, k)[order[i]] > 0 => k = None \/ i <= k
         /\ \A t \in Tokens : k # None /\ TopK(w, order, k)[t] > 0 =>
              Cardinality(Heavier(w, t)) < k
<1>1. /\ order \in [1 .. VocabSize -> Tokens]
      /\ \A t \in Tokens : \E j \in 1 .. VocabSize : order[j] = t
      /\ \A i, j \in 1 .. VocabSize : order[i] = order[j] => i = j
      /\ VocabSize \in Nat
  BY OrderIsOnto, TokensFinite DEF Ranked
<1>2. CASE k = None
  BY <1>1, <1>2 DEF TopK, Kept
<1>3. CASE k # None
  <2>1. k \in Nat /\ TopK(w, order, k) = KeepRanks(w, order, k)
    BY <1>3 DEF TopK, OptionalNat
  <2> DEFINE v == KeepRanks(w, order, k)
  <2>2. DOMAIN v = Tokens /\ Kept(v, w)
    BY KeepRanksWeights DEF Kept
  <2>3. \A i \in 1 .. VocabSize : i <= k => v[order[i]] = w[order[i]]
    <3> SUFFICES ASSUME NEW i \in 1 .. VocabSize, i <= k PROVE v[order[i]] = w[order[i]]
      OBVIOUS
    <3>1. i \in 1 .. k /\ i <= VocabSize /\ order[i] \in Tokens
      BY <1>1, <2>1
    <3> QED
      BY <3>1, KeepRanksWeights
  <2>4. \A t \in Tokens : v[t] > 0 => Cardinality(Heavier(w, t)) < k
    <3> SUFFICES ASSUME NEW t \in Tokens, v[t] > 0 PROVE Cardinality(Heavier(w, t)) < k
      OBVIOUS
    <3>1. PICK i \in 1 .. k : i <= VocabSize /\ order[i] = t
      BY KeepRanksWeights
    <3>2. i \in 1 .. VocabSize
      BY <1>1, <2>1, <3>1
    <3>3. Cardinality(Heavier(w, t)) < i /\ IsFiniteSet(Heavier(w, t))
      BY <3>1, <3>2, HeavierRanks
    <3>4. Cardinality(Heavier(w, t)) \in Nat
      BY <3>3, FS_CardinalityType
    <3> QED
      BY <2>1, <3>1, <3>3, <3>4
  <2>5. \A i \in 1 .. VocabSize : v[order[i]] > 0 => i <= k
    <3> SUFFICES ASSUME NEW i \in 1 .. VocabSize, v[order[i]] > 0 PROVE i <= k
      OBVIOUS
    <3>1. PICK j \in 1 .. k : j <= VocabSize /\ order[j] = order[i]
      BY <1>1, KeepRanksWeights
    <3>2. j \in 1 .. VocabSize
      BY <1>1, <2>1, <3>1
    <3>3. j = i
      BY <1>1, <3>1, <3>2
    <3> QED
      BY <2>1, <3>1, <3>3
  <2> QED
    BY <1>3, <2>1, <2>2, <2>3, <2>4, <2>5
<1> QED
  BY <1>2, <1>3

(* A product grows with its factors.                                       *)
LEMMA TimesMonotone ==
  ASSUME NEW a \in Nat, NEW b \in Nat, NEW c \in Nat, a <= b
  PROVE  a * c <= b * c
OBVIOUS

(* If the first n ranks do not reach p, then the tokens above one of rank  *)
(* at most n + 1 weigh less than p of all.                                 *)
LEMMA WeightAbove ==
  ASSUME NEW w, \A t \in Tokens : w[t] \in Nat,
         NEW v, DOMAIN v = Tokens, Kept(v, w), NEW order \in Ranked(w),
         NEW i \in 1 .. VocabSize, \A j \in 1 .. i : v[order[j]] = w[order[j]],
         NEW n \in 1 .. VocabSize, i <= n + 1, NEW p \in Nat \X Nat, NEW total \in Nat,
         ~Reaches(v, order, n, p, total)
  PROVE  SumFunctionOnSet(w, Heavier(w, order[i])) * p[2] < p[1] * total
<1> DEFINE H == Heavier(w, order[i])
           kept == KeepRanks(v, order, n)
<1>1. order \in [1 .. VocabSize -> Tokens] /\ VocabSize \in Nat /\ IsFiniteSet(Tokens)
  BY OrderIsOnto, TokensFinite DEF Ranked
<1>2. \A u \in H : \E j \in 1 .. VocabSize : j < i /\ order[j] = u
  BY HeavierRanks
<1>3. \A t \in Tokens : kept[t] \in Nat
  BY KeepRanksWeights DEF Kept
<1>4. H \subseteq Tokens
  BY DEF Heavier
<1>5. \A u \in H : w[u] \in Nat /\ w[u] <= kept[u]
  <2> SUFFICES ASSUME NEW u \in H PROVE w[u] \in Nat /\ w[u] <= kept[u]
    OBVIOUS
  <2>1. PICK j \in 1 .. VocabSize : j < i /\ order[j] = u
    BY <1>2
  <2>2. j \in 1 .. i /\ j \in 1 .. n
    BY <1>1, <2>1
  <2>3. v[u] = w[u] /\ u \in Tokens
    BY <1>4, <2>1, <2>2
  <2>4. kept[u] = v[u]
    BY <2>1, <2>2, <2>3, KeepRanksWeights
  <2>5. w[u] \in Nat
    BY <2>3
  <2> QED
    BY <2>3, <2>4, <2>5
<1>6. DOMAIN kept = Tokens
  BY KeepRanksWeights
<1> HIDE DEF H, kept
<1>7. SumFunctionOnSet(w, H) <= SumFunctionOnSet(kept, Tokens)
  BY <1>1, <1>3, <1>4, <1>5, SumOfPart
<1>8. SumFunctionOnSet(w, H) \in Nat /\ SumFunctionOnSet(kept, Tokens) \in Nat
  <2>1. IsFiniteSet(H)
    BY <1>1, <1>4, FS_Subset
  <2> QED
    BY <1>1, <1>3, <1>5, <2>1, SumIsNatural
<1>9. ~(SumFunctionOnSet(kept, Tokens) * p[2] >= p[1] * total)
  BY <1>6 DEF Reaches, WeightOfAll, SumFunction, kept
<1>10. PICK a \in Nat, b \in Nat : a = SumFunctionOnSet(w, H) /\ b = SumFunctionOnSet(kept, Tokens)
  BY <1>8
<1>11. p[1] \in Nat /\ p[2] \in Nat
  OBVIOUS
<1>12. a * p[2] <= b * p[2]
  BY <1>7, <1>10, <1>11, TimesMonotone
<1>13. p[1] * total \in Nat /\ a * p[2] \in Nat /\ b * p[2] \in Nat
  BY <1>11
<1>14. a * p[2] < p[1] * total
  BY <1>9, <1>10, <1>12, <1>13
<1> QED
  BY <1>10, <1>14 DEF H

(* What top_p keeps: the first rank, and those up to the first that        *)
(* reaches p.                                                              *)
LEMMA TopPKeeps ==
  ASSUME NEW w, \A t \in Tokens : w[t] \in Nat,
         NEW v, DOMAIN v = Tokens, Kept(v, w), NEW order \in Orders,
         NEW p \in {None} \cup (Nat \X Nat), NEW total \in Nat
  PROVE  /\ DOMAIN TopP(v, order, p, total) = Tokens
         /\ Kept(TopP(v, order, p, total), w)
         /\ TopP(v, order, p, total)[order[1]] = v[order[1]]
         /\ \A t \in Tokens : v[t] = 0 => TopP(v, order, p, total)[t] = 0
         /\ \A i \in 1 .. VocabSize : TopP(v, order, p, total)[order[i]] > 0 /\ p # None =>
              i = 1 \/ \E n \in 1 .. VocabSize : i <= n + 1 /\ ~Reaches(v, order, n, p, total)
<1>1. /\ order \in [1 .. VocabSize -> Tokens]
      /\ \A i, j \in 1 .. VocabSize : order[i] = order[j] => i = j
      /\ VocabSize \in Nat \ {0}
  BY OrderIsOnto, TokensFinite
<1> DEFINE S == {n \in 1 .. VocabSize : Reaches(v, order, n, p, total)}
<1>2. CASE p = None \/ S = {}
  <2>1. TopP(v, order, p, total) = v
    BY <1>2 DEF TopP
  <2>2. \A i \in 1 .. VocabSize : p # None =>
          \E n \in 1 .. VocabSize : i <= n + 1 /\ ~Reaches(v, order, n, p, total)
    <3> SUFFICES ASSUME NEW i \in 1 .. VocabSize, S = {}
                 PROVE  \E n \in 1 .. VocabSize : i <= n + 1 /\ ~Reaches(v, order, n, p, total)
      BY <1>2
    <3>1. ~Reaches(v, order, i, p, total) /\ i <= i + 1
      OBVIOUS
    <3> QED
      BY <3>1
  <2> QED
    BY <2>1, <2>2
<1>3. CASE p # None /\ S # {}
  <2> DEFINE m == Min(S)
             x == KeepRanks(v, order, m)
  <2>1. TopP(v, order, p, total) = x
    BY <1>3 DEF TopP
  <2>2. m \in 1 .. VocabSize /\ \A n \in 1 .. VocabSize : Reaches(v, order, n, p, total) => m <= n
    <3>1. S \subseteq Nat
      OBVIOUS
    <3>2. m \in S /\ \A n \in S : m <= n
      <4> HIDE DEF S
      <4> QED
        BY <1>3, <3>1, MinOfNaturals
    <3> QED
      BY <3>2
  <2> HIDE DEF m
  <2>3. DOMAIN x = Tokens /\ Kept(x, w) /\ \A t \in Tokens : v[t] = 0 => x[t] = 0
    BY KeepRanksWeights DEF Kept
  <2>4. x[order[1]] = v[order[1]]
    <3>1. 1 \in 1 .. m /\ 1 \in 1 .. VocabSize /\ order[1] \in Tokens
      BY <1>1, <2>2
    <3> QED
      BY <1>1, <3>1, KeepRanksWeights
  <2>5. \A i \in 1 .. VocabSize : x[order[i]] > 0 =>
          i = 1 \/ \E n \in 1 .. VocabSize : i <= n + 1 /\ ~Reaches(v, order, n, p, total)
    <3> SUFFICES ASSUME NEW i \in 1 .. VocabSize, x[order[i]] > 0, i # 1
                 PROVE  \E n \in 1 .. VocabSize : i <= n + 1 /\ ~Reaches(v, order, n, p, total)
      OBVIOUS
    <3>1. PICK j \in 1 .. m : j <= VocabSize /\ order[j] = order[i]
      BY <1>1, KeepRanksWeights
    <3>2. j \in 1 .. VocabSize
      BY <1>1, <2>2, <3>1
    <3>3. j = i
      BY <1>1, <3>1, <3>2
    <3>4. i - 1 \in 1 .. VocabSize /\ i <= (i - 1) + 1 /\ ~(m <= i - 1)
      BY <1>1, <2>2, <3>1, <3>3
    <3>5. ~Reaches(v, order, i - 1, p, total)
      BY <2>2, <3>4
    <3> QED
      BY <3>4, <3>5
  <2> QED
    BY <2>1, <2>3, <2>4, <2>5
<1> QED
  BY <1>2, <1>3

(* softmax of comparable logits: natural weights, one of them positive.    *)
LEMMA SoftmaxWeights ==
  ASSUME NaturalWeights, NEW logits \in Logits, Comparable(logits) = Tokens,
         NEW temperature \in Nat \ {0}
  PROVE  /\ DOMAIN Softmax(logits, temperature) = Tokens
         /\ \A t \in Tokens : Softmax(logits, temperature)[t] \in Nat
         /\ \E t \in Tokens : Softmax(logits, temperature)[t] > 0
<1> DEFINE top == Max({logits[t] : t \in Tokens})
<1>1. \A t \in Tokens : logits[t] \in Int
  BY DEF Comparable, Logits
<1>2. /\ top \in Int
      /\ \E t \in Tokens : logits[t] = top
      /\ \A t \in Tokens : top >= logits[t]
  BY <1>1, TokensFinite, TopLogit
<1>3. \A t \in Tokens : Softmax(logits, temperature)[t] = Weight(top - logits[t], temperature)
  BY DEF Softmax
<1> HIDE DEF top
<1>4. \A t \in Tokens : top - logits[t] \in Nat
  BY <1>1, <1>2
<1>5. \A t \in Tokens : Softmax(logits, temperature)[t] \in Nat
  BY <1>3, <1>4 DEF NaturalWeights
<1>6. \E t \in Tokens : Softmax(logits, temperature)[t] > 0
  <2>1. PICK t \in Tokens : logits[t] = top
    BY <1>2
  <2>2. top - logits[t] = 0
    BY <1>2, <2>1
  <2> QED
    BY <1>3, <2>2 DEF NaturalWeights
<1> QED
  BY <1>5, <1>6 DEF Softmax

(* sampling.rs:58-77, for every vocabulary, row of logits and options:     *)
(* what sample returns is allowed by top_k and top_p, or one of the two    *)
(* edge tokens; and the largest logit where no choice is left.             *)
THEOREM SampleIsAllowed ==
  ASSUME NaturalWeights, NEW logits \in Logits, NEW params \in Options,
         NEW t \in Samples(logits, params)
  PROVE  IF Forced(logits, params) THEN t = ArgMax(logits)
         ELSE InNucleus(logits, params, t) \/ t \in {0, VocabSize - 1}
<1> DEFINE w == Softmax(logits, params.temperature)
           total == WeightOfAll(w)
           top_k(order) == TopK(w, order, params.top_k)
           kept(order) == TopP(top_k(order), order, params.top_p, total)
<1>1. /\ params.temperature \in Nat
      /\ params.top_k \in OptionalNat
      /\ params.top_p \in {None} \cup (Nat \X Nat)
  BY DEF Options
<1>2. CASE params.temperature = 0 \/ Comparable(logits) # Tokens
  BY <1>2 DEF Samples, Forced
<1>3. CASE params.temperature # 0 /\ Comparable(logits) = Tokens
  <2>1. DOMAIN w = Tokens /\ (\A u \in Tokens : w[u] \in Nat) /\ \E u \in Tokens : w[u] > 0
    BY <1>1, <1>3, SoftmaxWeights
  <2>2. total \in Nat
    BY <2>1, TokensFinite, SumIsNatural DEF WeightOfAll, SumFunction
  <2>3. PICK order \in Ranked(w) :
          \/ WeightOfAll(kept(order)) = 0 /\ t = ArgMax(logits)
          \/ /\ WeightOfAll(kept(order)) # 0
             /\ t \in {u \in Tokens : kept(order)[u] > 0} \cup EdgeTokens(kept(order))
    BY <1>3 DEF Samples
  <2> HIDE DEF w, total
  <2> DEFINE v == top_k(order)
             x == kept(order)
  <2>4. /\ order \in Orders
        /\ order \in [1 .. VocabSize -> Tokens]
        /\ \A u \in Tokens : \E i \in 1 .. VocabSize : order[i] = u
        /\ VocabSize \in Nat \ {0}
    BY OrderIsOnto, TokensFinite DEF Ranked
  <2>5. /\ DOMAIN v = Tokens /\ Kept(v, w)
        /\ \A i \in 1 .. VocabSize :
             params.top_k = None \/ i <= params.top_k => v[order[i]] = w[order[i]]
        /\ \A i \in 1 .. VocabSize :
             v[order[i]] > 0 => params.top_k = None \/ i <= params.top_k
        /\ \A u \in Tokens : params.top_k # None /\ v[u] > 0 =>
             Cardinality(Heavier(w, u)) < params.top_k
    BY <1>1, <2>1, TopKKeeps
  <2> HIDE DEF v
  <2>6. /\ DOMAIN x = Tokens /\ Kept(x, w)
        /\ x[order[1]] = v[order[1]]
        /\ \A u \in Tokens : v[u] = 0 => x[u] = 0
        /\ \A i \in 1 .. VocabSize : x[order[i]] > 0 /\ params.top_p # None =>
             i = 1 \/ \E n \in 1 .. VocabSize :
                        i <= n + 1 /\ ~Reaches(v, order, n, params.top_p, total)
    <3>1. x = TopP(v, order, params.top_p, total)
      BY DEF v
    <3> HIDE DEF x, kept, top_k
    <3>2. PICK p \in {None} \cup (Nat \X Nat) : p = params.top_p
      BY <1>1
    <3>3. /\ \A u \in Tokens : w[u] \in Nat
          /\ DOMAIN v = Tokens /\ Kept(v, w)
      BY <2>1, <2>5
    <3>4. /\ DOMAIN TopP(v, order, p, total) = Tokens
          /\ Kept(TopP(v, order, p, total), w)
          /\ TopP(v, order, p, total)[order[1]] = v[order[1]]
          /\ \A u \in Tokens : v[u] = 0 => TopP(v, order, p, total)[u] = 0
          /\ \A i \in 1 .. VocabSize : TopP(v, order, p, total)[order[i]] > 0 /\ p # None =>
               i = 1 \/ \E n \in 1 .. VocabSize : i <= n + 1 /\ ~Reaches(v, order, n, p, total)
      BY <2>2, <2>4, <3>3, TopPKeeps
    <3> QED
      BY <3>1, <3>2, <3>4
  <2> HIDE DEF x
  <2>7. CASE params.top_k = 0
    <3>1. \A i \in 1 .. VocabSize : ~(v[order[i]] > 0)
      BY <2>5, <2>7, ChatAssumption
    <3>2. \A u \in Tokens : x[u] = 0
      BY <2>1, <2>4, <2>5, <2>6, <3>1 DEF Kept
    <3>3. WeightOfAll(x) = 0
      BY <2>6, <3>2, TokensFinite, SumOfZeros DEF WeightOfAll, SumFunction
    <3> QED
      BY <2>3, <2>7, <3>3 DEF Forced, x
  <2>8. CASE params.top_k # 0
    <3>1. ~Forced(logits, params)
      BY <1>3, <2>8 DEF Forced
    <3>2. x[order[1]] > 0
      <4>1. 1 \in 1 .. VocabSize /\ order[1] \in Tokens
        BY <2>4
      <4>2. PICK u \in Tokens : w[u] > 0
        BY <2>1
      <4>3. PICK i \in 1 .. VocabSize : order[i] = u
        BY <2>4
      <4>4. i = 1 \/ 1 < i
        BY <4>3
      <4>5. w[order[1]] >= w[order[i]]
        BY <2>1, <4>1, <4>2, <4>3, <4>4 DEF Ranked
      <4>6. w[order[1]] > 0
        BY <2>1, <4>1, <4>2, <4>3, <4>5
      <4>7. params.top_k = None \/ 1 <= params.top_k
        BY <1>1, <2>8 DEF OptionalNat
      <4> QED
        BY <2>5, <2>6, <4>1, <4>6, <4>7
    <3>3. WeightOfAll(x) # 0
      <4>1. \A u \in Tokens : x[u] \in Nat
        BY <2>1, <2>6 DEF Kept
      <4>2. order[1] \in Tokens
        BY <2>4
      <4>3. x[order[1]] <= SumFunctionOnSet(x, Tokens) /\ SumFunctionOnSet(x, Tokens) \in Nat
        BY <4>1, <4>2, TokensFinite, SumAtLeast, SumIsNatural
      <4>4. x[order[1]] \in Nat
        BY <4>1, <4>2
      <4> QED
        BY <2>6, <3>2, <4>3, <4>4 DEF WeightOfAll, SumFunction
    <3>4. CASE t \in EdgeTokens(x)
      BY <3>1, <3>4 DEF EdgeTokens
    <3>5. CASE t \in Tokens /\ x[t] > 0
      <4>1. PICK i \in 1 .. VocabSize : order[i] = t
        BY <2>4, <3>5
      <4>2. w[t] > 0 /\ v[t] > 0
        BY <2>1, <2>5, <2>6, <3>5 DEF Kept
      <4>3. params.top_k # None => Cardinality(Heavier(w, t)) < params.top_k
        BY <2>5, <3>5, <4>2
      <4>4. \A j \in 1 .. i : v[order[j]] = w[order[j]]
        <5> SUFFICES ASSUME NEW j \in 1 .. i PROVE v[order[j]] = w[order[j]]
          OBVIOUS
        <5>1. params.top_k = None \/ i <= params.top_k
          BY <2>5, <4>1, <4>2
        <5>2. j \in 1 .. VocabSize /\ (params.top_k = None \/ j <= params.top_k)
          BY <1>1, <2>4, <5>1 DEF OptionalNat
        <5> QED
          BY <2>5, <5>2
      <4>5. params.top_p # None =>
              \/ Heavier(w, t) = {}
              \/ SumFunctionOnSet(w, Heavier(w, t)) * params.top_p[2]
                   < params.top_p[1] * total
        <5> SUFFICES ASSUME params.top_p # None
                     PROVE  \/ Heavier(w, t) = {}
                            \/ SumFunctionOnSet(w, Heavier(w, t)) * params.top_p[2]
                                 < params.top_p[1] * total
          OBVIOUS
        <5>1. CASE i = 1
          <6>1. \A u \in Heavier(w, order[i]) : \E j \in 1 .. VocabSize : j < i /\ order[j] = u
            BY <2>1, HeavierRanks
          <6> QED
            BY <4>1, <5>1, <6>1
        <5>2. CASE i # 1
          <6>1. PICK n \in 1 .. VocabSize :
                  i <= n + 1 /\ ~Reaches(v, order, n, params.top_p, total)
            BY <2>6, <3>5, <4>1, <5>2
          <6>2. params.top_p \in Nat \X Nat
            BY <1>1
          <6> QED
            BY <2>1, <2>2, <2>5, <4>1, <4>4, <6>1, <6>2, WeightAbove
        <5> QED
          BY <5>1, <5>2
      <4>6. InNucleus(logits, params, t)
        BY <4>2, <4>3, <4>5 DEF InNucleus, w, total
      <4> QED
        BY <3>1, <4>6
    <3> QED
      BY <2>3, <3>3, <3>4, <3>5 DEF x
  <2> QED
    BY <2>7, <2>8
<1> QED
  BY <1>1, <1>2, <1>3

-----------------------------------------------------------------------------
(* The invariant of the protocol.  Types first.                            *)
Reasons == {"length", "stop"}

Result ==
  {NotYet, Failed}
    \cup [kind : {"ok"}, finish_reason : Reasons, completion_tokens : Nat]

Event ==
  {RoleChunk, DoneMark}
    \cup [type : {"delta"}, token : Tokens]
    \cup [type : {"finish"}, finish_reason : Reasons]
    \cup [type : {"usage"}, completion_tokens : Nat]
    \cup [type : {"answer"}, tokens : Seq(Tokens), finish_reason : Reasons,
          completion_tokens : Nat]
    \cup [type : {"error"}, status : Nat]

Sampled == [kind : {"sampled"}, logits : Logits, token : Tokens]

Clients == {"new", "waiting", "reading", "answered", "left"}

Tasks == {"none", "locking", "spawned", "ended"} \cup Holding

ChatShape ==
  /\ client \in [Requests -> Clients]
  /\ task \in [Requests -> Tasks]
  /\ received \in [Requests -> Seq(Event)]
  /\ generated \in [Requests -> Seq(Tokens)]
  /\ stopped \in [Requests -> Seq(Tokens)]
  /\ channel \in [Requests -> Seq(Tokens)]
  /\ result \in [Requests -> Result]
  /\ next \in {NotYet} \cup Sampled
  /\ DOMAIN body = Requests

(* A request has a body from the moment it is sent.                        *)
BodyKept(r) ==
  /\ client[r] = "new" => body[r] = None /\ task[r] = "none"
  /\ client[r] # "new" => body[r] \in Bodies[r]

(* The Mutex is held by the generation that works.                         *)
Mutex(r) == (task[r] \in Holding) <=> (engine = r)

(* What was sampled was sampled by its holder, which is about to use it.   *)
Drawn ==
  next # NotYet =>
    \E r \in Requests : task[r] = "deliver" /\ next.token \in Samples(next.logits, Params(r))

Delivers(r) == task[r] = "deliver" => next # NotYet

(* How far the generation of r is, and what its result counts.             *)
Budget(r) ==
  /\ task[r] \in {"none", "locking", "spawned"} => generated[r] = << >> /\ channel[r] = << >>
  /\ task[r] \in {"none", "locking", "spawned", "sample", "deliver"} =>
       result[r] = NotYet /\ stopped[r] = << >>
  /\ task[r] = "sample" => Len(generated[r]) <= Params(r).max_tokens
  /\ task[r] = "deliver" => Len(generated[r]) < Params(r).max_tokens
  /\ result[r].kind = "ok" =>
       /\ result[r].completion_tokens = Len(generated[r]) + Len(stopped[r])
       /\ result[r].completion_tokens <= Params(r).max_tokens
       /\ result[r].finish_reason = "length" <=> Len(generated[r]) = Params(r).max_tokens

(* What the client of r has is the beginning of a stream: the role, then   *)
(* pieces as generated; closing events come after the end only.            *)
Streamed(r) ==
  LET n == Len(received[r])
      g == Len(generated[r]) IN
  /\ n > 0 => /\ body[r].stream
              /\ task[r] \notin {"none", "locking"}
              /\ received[r][1] = RoleChunk
  /\ \A i \in 2 .. n : i <= g + 1 => received[r][i] = DeltaChunk(generated[r][i - 1])
  /\ n > g + 1 => /\ task[r] = "ended"
                  /\ n <= g + 1 + Len(Closing(r))
                  /\ \A i \in 2 .. n : i > g + 1 => received[r][i] = Closing(r)[i - g - 1]

(* The channel of a stream that is read holds the pieces not yet received. *)
Pending(r) ==
  LET n == Len(received[r])
      g == Len(generated[r]) IN
  client[r] = "reading" =>
    /\ body[r].stream /\ task[r] \notin {"none", "locking"}
    /\ n = 0 => channel[r] = generated[r]
    /\ n > 0 /\ n <= g + 1 =>
         /\ Len(channel[r]) = g + 1 - n
         /\ \A j \in 1 .. Len(channel[r]) : channel[r][j] = generated[r][n - 1 + j]
    /\ n > g + 1 => channel[r] = << >>

(* All that a client can have: a part of a stream, one error or one answer.*)
Told(r) ==
  \/ Streamed(r)
  \/ received[r] = <<ErrorAnswer(400)>> /\ task[r] = "none"
  \/ /\ received[r] = <<ErrorAnswer(500)>> /\ task[r] = "ended"
     /\ body[r].stream => poisoned
  \/ /\ received[r] = <<Answer(generated[r], result[r])>> /\ task[r] = "ended"
     /\ result[r].kind = "ok" /\ ~body[r].stream

(* What goes with each state of the client.                                *)
Awaiting(r) ==
  /\ client[r] \in {"new", "waiting"} => received[r] = << >>
  /\ client[r] = "reading" => Streamed(r)
  /\ client[r] = "waiting" /\ body[r].stream =>
       \/ task[r] \in {"none", "locking"}
       \/ task[r] = "ended" /\ poisoned /\ result[r] = Failed
  /\ client[r] = "answered" /\ Streamed(r) /\ received[r] # << >> =>
       task[r] = "ended" /\ Len(received[r]) = 1 + Len(generated[r]) + Len(Closing(r))
  /\ client[r] = "answered" => received[r] # << >>

OfRequest(r) ==
  BodyKept(r) /\ Mutex(r) /\ Delivers(r) /\ Budget(r) /\ Told(r) /\ Pending(r) /\ Awaiting(r)

ChatInv == ChatShape /\ Drawn /\ \A r \in Requests : OfRequest(r)

-----------------------------------------------------------------------------
(* The options of a request that was sent.                                 *)
LEMMA ParamsAreOptions ==
  ASSUME NEW r \in Requests, body[r] \in Bodies[r]
  PROVE  Params(r) \in Options
<1>1. body[r] \in ChatCompletionRequest /\ Defaults \in SamplingParams
  BY ChatAssumption
<1>2. /\ OrElse(body[r].temperature, Defaults.temperature) \in Nat
      /\ OrElse(body[r].max_tokens, Defaults.max_tokens) \in Nat
  BY <1>1 DEF OrElse, ChatCompletionRequest, SamplingParams, OptionalNat
<1>3. /\ OrElse(body[r].top_k, Defaults.top_k) \in OptionalNat
      /\ OrElse(body[r].top_p, Defaults.top_p) \in {None} \cup (Nat \X Nat)
      /\ OrElse(body[r].stop, {}) \in SUBSET Seq(STRING)
  BY <1>1 DEF OrElse, ChatCompletionRequest, SamplingParams
<1> QED
  BY <1>2, <1>3 DEF Params, Options

(* The types of what belongs to a request.                                 *)
LEMMA ShapeOf ==
  ASSUME ChatShape, NEW r \in Requests
  PROVE  /\ client[r] \in Clients /\ task[r] \in Tasks
         /\ received[r] \in Seq(Event) /\ Len(received[r]) \in Nat
         /\ generated[r] \in Seq(Tokens) /\ Len(generated[r]) \in Nat
         /\ stopped[r] \in Seq(Tokens) /\ Len(stopped[r]) \in Nat
         /\ channel[r] \in Seq(Tokens) /\ Len(channel[r]) \in Nat
         /\ result[r] \in Result
BY DEF ChatShape

(* Tuples put together.                                                    *)
LEMMA TupleConcat ==
  ASSUME NEW S, NEW a \in S, NEW b \in S, NEW c \in S
  PROVE  /\ <<a>> \o <<b>> \o <<c>> = <<a, b, c>>
         /\ <<a>> \o << >> \o <<c>> = <<a, c>>
<1>1. /\ <<a>> \in Seq(S) /\ <<b>> \in Seq(S) /\ <<c>> \in Seq(S)
      /\ <<a, b, c>> \in Seq(S) /\ <<a, c>> \in Seq(S)
  OBVIOUS
<1> DEFINE ab == <<a>> \o <<b>>
           abc == ab \o <<c>>
           ac == <<a>> \o <<c>>
<1>2. ab \in Seq(S) /\ Len(ab) = 2 /\ ab[1] = a /\ ab[2] = b
  BY <1>1, ConcatProperties
<1> HIDE DEF ab
<1>3. abc \in Seq(S) /\ Len(abc) = 3 /\ abc[1] = a /\ abc[2] = b /\ abc[3] = c
  BY ONLY <1>1, <1>2, ConcatProperties
<1>4. ac \in Seq(S) /\ Len(ac) = 2 /\ ac[1] = a /\ ac[2] = c
  BY ONLY <1>1, ConcatProperties
<1> HIDE DEF abc, ac
<1>5. abc = <<a, b, c>>
  <2>1. \A i \in 1 .. 3 : abc[i] = <<a, b, c>>[i]
    BY <1>3
  <2> QED
    BY <1>1, <1>3, <2>1, SeqEqual
<1>6. ac = <<a, c>>
  <2>1. \A i \in 1 .. 2 : ac[i] = <<a, c>>[i]
    BY <1>4
  <2> QED
    BY <1>1, <1>4, <2>1, SeqEqual
<1>7. <<a>> \o << >> = <<a>>
  BY <1>1, ConcatEmptySeq
<1> QED
  BY <1>5, <1>6, <1>7 DEF ab, abc, ac

(* The closing events of a generation that succeeded: two or three, the    *)
(* last of them [DONE]; of one that did not, none.                         *)
LEMMA ClosingForm ==
  ASSUME NEW r \in Requests, result[r] \in Result
  PROVE  /\ Closing(r) \in Seq(Event)
         /\ Len(Closing(r)) \in Nat
         /\ result[r].kind # "ok" => Closing(r) = << >>
         /\ result[r].kind = "ok" =>
              /\ Len(Closing(r)) \in {2, 3}
              /\ Closing(r)[1] = FinishChunk(result[r])
              /\ Len(Closing(r)) = 3 => Closing(r)[2] = UsageChunk(result[r])
              /\ Closing(r)[Len(Closing(r))] = DoneMark
<1>1. CASE result[r].kind # "ok"
  BY <1>1 DEF Closing
<1>2. CASE result[r].kind = "ok"
  <2> DEFINE f == FinishChunk(result[r])
             u == UsageChunk(result[r])
  <2>1. result[r] \in [kind : {"ok"}, finish_reason : Reasons, completion_tokens : Nat]
    BY <1>2 DEF Result, NotYet, Failed
  <2>2. f \in Event /\ u \in Event /\ DoneMark \in Event
    BY <2>1 DEF Event, FinishChunk, UsageChunk
  <2> HIDE DEF f, u
  <2>3. CASE body[r].include_usage
    <3>1. Closing(r) = <<f>> \o <<u>> \o <<DoneMark>>
      BY <1>2, <2>3 DEF Closing, f, u
    <3>2. Closing(r) = <<f, u, DoneMark>>
      BY <2>2, <3>1, TupleConcat
    <3> QED
      BY <1>2, <2>2, <3>2 DEF f, u
  <2>4. CASE ~body[r].include_usage
    <3>1. Closing(r) = <<f>> \o << >> \o <<DoneMark>>
      BY <1>2, <2>4 DEF Closing, f
    <3>2. Closing(r) = <<f, DoneMark>>
      BY <2>2, <3>1, TupleConcat
    <3> QED
      BY <1>2, <2>2, <3>2 DEF f, u
  <2> QED
    BY <2>3, <2>4
<1> QED
  BY <1>1, <1>2

(* Closing events are neither the role nor pieces nor answers.             *)
LEMMA ClosingTypes ==
  ASSUME NEW r \in Requests, result[r] \in Result, NEW i \in 1 .. Len(Closing(r))
  PROVE  /\ result[r].kind = "ok"
         /\ Closing(r)[i] \in {FinishChunk(result[r]), UsageChunk(result[r]), DoneMark}
         /\ Closing(r)[i].type \in {"finish", "usage", "[DONE]"}
<1>1. result[r].kind = "ok"
  BY ClosingForm
<1>2. i = 1 \/ i = Len(Closing(r)) \/ (i = 2 /\ Len(Closing(r)) = 3)
  BY <1>1, ClosingForm
<1>3. Closing(r)[i] \in {FinishChunk(result[r]), UsageChunk(result[r]), DoneMark}
  BY <1>1, <1>2, ClosingForm
<1> QED
  BY <1>1, <1>3 DEF FinishChunk, UsageChunk, DoneMark

(* It holds at the start.                                                  *)
LEMMA ChatInitInv == ChatInit => ChatInv
<1> SUFFICES ASSUME ChatInit PROVE ChatInv
  OBVIOUS
<1>1. ChatShape
  BY DEF ChatInit, ChatShape, Clients, Tasks, Result
<1>2. Drawn
  BY DEF ChatInit, Drawn
<1>3. ASSUME NEW r \in Requests PROVE OfRequest(r)
  <2>1. /\ client[r] = "new" /\ task[r] = "none" /\ body[r] = None
        /\ received[r] = << >> /\ generated[r] = << >> /\ stopped[r] = << >>
        /\ channel[r] = << >> /\ result[r] = NotYet /\ engine # r
    BY ChatAssumption DEF ChatInit
  <2>2. BodyKept(r) /\ Mutex(r) /\ Delivers(r) /\ Budget(r)
    BY <2>1 DEF BodyKept, Mutex, Delivers, Budget, Holding, NotYet
  <2>3. Streamed(r)
    BY <2>1 DEF Streamed
  <2>4. Told(r) /\ Pending(r) /\ Awaiting(r)
    BY <2>1, <2>3 DEF Told, Pending, Awaiting
  <2> QED
    BY <2>2, <2>4 DEF OfRequest
<1> QED
  BY <1>1, <1>2, <1>3 DEF ChatInv

(* A step that leaves a request alone keeps what holds of it.  Once        *)
(* poisoned, the Mutex stays poisoned.                                     *)
LEMMA Bystander ==
  ASSUME NEW q \in Requests, OfRequest(q),
         body'[q] = body[q], client'[q] = client[q], received'[q] = received[q],
         task'[q] = task[q], generated'[q] = generated[q], stopped'[q] = stopped[q],
         channel'[q] = channel[q], result'[q] = result[q],
         poisoned => poisoned', Mutex(q)', Delivers(q)'
  PROVE  OfRequest(q)'
<1>1. Closing(q)' = Closing(q) /\ Params(q)' = Params(q)
  BY DEF Closing, Params
<1>2. Streamed(q)' = Streamed(q)
  BY <1>1 DEF Streamed
<1>3. BodyKept(q)' /\ Budget(q)' /\ Pending(q)'
  <2>1. BodyKept(q)'
    BY DEF OfRequest, BodyKept
  <2>2. Budget(q)'
    BY <1>1 DEF OfRequest, Budget
  <2>3. Pending(q)'
    BY DEF OfRequest, Pending
  <2> QED
    BY <2>1, <2>2, <2>3
<1>4. Told(q)' /\ Awaiting(q)'
  BY <1>1, <1>2 DEF OfRequest, Told, Awaiting
<1> QED
  BY <1>3, <1>4 DEF OfRequest

-----------------------------------------------------------------------------
(* What the steps have in common.                                          *)

(* A step leaves q alone.                                                  *)
Untouched(q) ==
  /\ body'[q] = body[q] /\ client'[q] = client[q] /\ received'[q] = received[q]
  /\ task'[q] = task[q] /\ generated'[q] = generated[q] /\ stopped'[q] = stopped[q]
  /\ channel'[q] = channel[q] /\ result'[q] = result[q]

(* Only one generation holds the Mutex.                                    *)
LEMMA Exclusive ==
  ASSUME ChatInv, NEW r \in Requests, NEW q \in Requests, task[r] \in Holding,
         task[q] \in Holding
  PROVE  q = r
BY DEF ChatInv, OfRequest, Mutex

(* A step of r leaves the invariant of the others alone.                   *)
LEMMA StepOf ==
  ASSUME ChatInv, NEW r \in Requests, \A q \in Requests \ {r} : Untouched(q),
         poisoned => poisoned',
         \/ engine' = engine /\ next' = next
         \/ task[r] \in Holding /\ engine' \in {r, NoRequest}
         \/ engine = NoRequest /\ engine' = r /\ next' = next,
         ChatShape', Drawn', OfRequest(r)'
  PROVE  ChatInv'
<1>1. ASSUME NEW q \in Requests \ {r} PROVE OfRequest(q)'
  <2>1. OfRequest(q) /\ Untouched(q) /\ OfRequest(r)
    BY DEF ChatInv
  <2>2. Mutex(q)'
    BY <2>1, ChatAssumption DEF OfRequest, Mutex, Untouched
  <2>3. Delivers(q)'
    <3>1. CASE task[q] = "deliver"
      <4>1. engine = q /\ engine # r
        BY <2>1, <3>1 DEF OfRequest, Mutex, Holding
      <4>2. next' = next
        BY <2>1, <4>1, ChatAssumption DEF OfRequest, Mutex
      <4> QED
        BY <2>1, <4>2 DEF OfRequest, Delivers, Untouched
    <3>2. CASE task[q] # "deliver"
      BY <2>1, <3>2 DEF Delivers, Untouched
    <3> QED
      BY <3>1, <3>2
  <2> QED
    BY <2>1, <2>2, <2>3, Bystander DEF Untouched
<1> QED
  BY <1>1 DEF ChatInv

(* What was sampled stays sampled while its request does not move.         *)
LEMMA DrawnKept ==
  ASSUME ChatInv, NEW r \in Requests, \A q \in Requests \ {r} : Untouched(q),
         next' = next,
         task[r] = "deliver" => task'[r] = "deliver" /\ body'[r] = body[r]
  PROVE  Drawn'
<1> SUFFICES ASSUME next # NotYet
             PROVE  \E q \in Requests :
                      task'[q] = "deliver" /\ next.token \in Samples(next.logits, Params(q)')
  BY DEF Drawn
<1>1. PICK q \in Requests : task[q] = "deliver" /\ next.token \in Samples(next.logits, Params(q))
  BY DEF ChatInv, Drawn
<1>2. task'[q] = "deliver" /\ body'[q] = body[q]
  BY <1>1 DEF Untouched
<1>3. Params(q)' = Params(q)
  BY <1>2 DEF Params
<1> QED
  BY <1>1, <1>2, <1>3

(* While a generation has not ended its client has, at most, pieces.       *)
LEMMA BeforeTheEnd ==
  ASSUME ChatShape, NEW r \in Requests, OfRequest(r), task[r] \notin {"none", "ended"}
  PROVE  /\ Streamed(r)
         /\ Len(received[r]) <= Len(generated[r]) + 1
         /\ client[r] \in {"waiting", "reading", "left"}
         /\ body[r] \in Bodies[r]
         /\ client[r] = "waiting" /\ body[r].stream => task[r] = "locking"
<1>1. Streamed(r)
  BY DEF OfRequest, Told
<1>2. Len(received[r]) <= Len(generated[r]) + 1
  BY <1>1, ShapeOf DEF Streamed
<1>3. client[r] # "new" /\ body[r] \in Bodies[r]
  BY DEF OfRequest, BodyKept
<1>4. client[r] # "answered"
  BY <1>1 DEF OfRequest, Awaiting
<1>5. client[r] = "waiting" /\ body[r].stream => task[r] = "locking"
  BY DEF OfRequest, Awaiting
<1> QED
  BY <1>1, <1>2, <1>3, <1>4, <1>5, ShapeOf DEF Clients

(* A step of the generation that emits nothing changes nothing for the     *)
(* client.                                                                 *)
LEMMA NothingEmitted ==
  ASSUME ChatShape, NEW r \in Requests, OfRequest(r), task[r] \notin {"none", "ended"},
         task'[r] \notin {"none", "locking"},
         body'[r] = body[r], client'[r] = client[r], received'[r] = received[r],
         generated'[r] = generated[r], channel'[r] = channel[r],
         task[r] = "locking" => task'[r] = "ended" /\ poisoned' /\ result'[r] = Failed
  PROVE  BodyKept(r)' /\ Told(r)' /\ Pending(r)' /\ Awaiting(r)'
<1>1. /\ Streamed(r)
      /\ Len(received[r]) <= Len(generated[r]) + 1
      /\ client[r] \in {"waiting", "reading", "left"}
      /\ body[r] \in Bodies[r]
      /\ client[r] = "waiting" /\ body[r].stream => task[r] = "locking"
  BY BeforeTheEnd
<1>2. Len(received[r]) \in Nat /\ Len(generated[r]) \in Nat
  BY ShapeOf
<1>3. Streamed(r)'
  BY <1>1, <1>2 DEF Streamed
<1>4. Pending(r)'
  BY <1>1, <1>2 DEF OfRequest, Pending
<1>5. Awaiting(r)'
  BY <1>1, <1>3 DEF OfRequest, Awaiting
<1> QED
  BY <1>1, <1>3, <1>4, <1>5 DEF Told, BodyKept

(* A step that touches neither the generation nor its options.             *)
LEMMA GenerationKept ==
  ASSUME NEW r \in Requests, OfRequest(r), task'[r] = task[r], body'[r] = body[r],
         generated'[r] = generated[r], stopped'[r] = stopped[r], result'[r] = result[r],
         engine' = engine, next' = next,
         channel'[r] = channel[r] \/ task[r] \notin {"none", "locking", "spawned"}
  PROVE  Mutex(r)' /\ Delivers(r)' /\ Budget(r)'
<1>1. Params(r)' = Params(r)
  BY DEF Params
<1> QED
  BY <1>1 DEF OfRequest, Mutex, Delivers, Budget

-----------------------------------------------------------------------------
(* One lemma per action: the handler.                                      *)

LEMMA SendInv ==
  ASSUME ChatInv, NEW r \in Requests, NEW b \in Bodies[r], Send(r, b)
  PROVE  ChatInv'
<1>1. ChatShape /\ OfRequest(r)
  BY DEF ChatInv
<1>2. /\ client' = [client EXCEPT ![r] = "waiting"]
      /\ body' = [body EXCEPT ![r] = b]
      /\ UNCHANGED <<received, task, next, generated, stopped, result, channel,
                     engine, poisoned, panics>>
      /\ client[r] = "new"
  BY DEF Send, Becomes, loopVars, lockVars
<1>3. client'[r] = "waiting" /\ body'[r] = b /\ \A q \in Requests \ {r} : Untouched(q)
  BY <1>1, <1>2 DEF ChatShape, Untouched
<1>4. ChatShape'
  BY <1>1, <1>2 DEF ChatShape, Clients
<1>5. task[r] = "none" /\ received[r] = << >>
  BY <1>1, <1>2 DEF OfRequest, BodyKept, Awaiting
<1>6. OfRequest(r)'
  <2>1. Mutex(r)' /\ Delivers(r)'
    BY <1>1, <1>2 DEF OfRequest, Mutex, Delivers
  <2>2. Budget(r)'
    <3>1. /\ generated[r] = << >> /\ channel[r] = << >> /\ stopped[r] = << >>
          /\ result[r] = NotYet /\ NotYet.kind = "none"
      BY <1>1, <1>5 DEF OfRequest, Budget, NotYet
    <3>2. /\ generated'[r] = << >> /\ channel'[r] = << >> /\ stopped'[r] = << >>
          /\ result'[r] = NotYet /\ task'[r] = "none"
      BY <1>2, <1>5, <3>1
    <3> HIDE DEF NotYet
    <3> QED
      BY <3>1, <3>2 DEF Budget
  <2>3. Streamed(r)'
    <3>1. Len(received'[r]) = 0 /\ Len(generated'[r]) \in Nat
      BY <1>1, <1>2, <1>5, ShapeOf
    <3> QED
      BY <3>1 DEF Streamed
  <2>4. BodyKept(r)' /\ Told(r)' /\ Pending(r)' /\ Awaiting(r)'
    BY <1>2, <1>3, <1>5, <2>3 DEF BodyKept, Told, Pending, Awaiting
  <2> QED
    BY <2>1, <2>2, <2>4 DEF OfRequest
<1>7. Drawn'
  BY <1>2, <1>3, <1>5, DrawnKept
<1> QED
  BY <1>2, <1>3, <1>4, <1>6, <1>7, StepOf

(* The handler answers a client that waits, with one event.                *)
LEMMA AnswersInv ==
  ASSUME ChatInv, NEW r \in Requests, NEW answer \in Event, Answers(r, answer),
         client[r] = "waiting",
         \/ answer = ErrorAnswer(400) /\ task[r] = "none"
         \/ answer = ErrorAnswer(500) /\ task[r] = "ended" /\ (body[r].stream => poisoned)
         \/ /\ answer = Answer(generated[r], result[r]) /\ task[r] = "ended"
            /\ result[r].kind = "ok" /\ ~body[r].stream
  PROVE  ChatInv'
<1>1. ChatShape /\ OfRequest(r)
  BY DEF ChatInv
<1>2. /\ received' = [received EXCEPT ![r] = Append(@, answer)]
      /\ client' = [client EXCEPT ![r] = "answered"]
      /\ UNCHANGED <<body, task, next, generated, stopped, result, channel,
                     engine, poisoned, panics>>
  BY DEF Answers, Receives, Becomes, loopVars, lockVars
<1>3. received[r] = << >>
  BY <1>1 DEF OfRequest, Awaiting
<1>4. Append(<< >>, answer) = <<answer>>
  OBVIOUS
<1>5. /\ client'[r] = "answered" /\ received'[r] = <<answer>>
      /\ \A q \in Requests \ {r} : Untouched(q)
  BY <1>1, <1>2, <1>3, <1>4 DEF ChatShape, Untouched
<1>6. ChatShape'
  <2>1. Append(received[r], answer) \in Seq(Event)
    BY <1>1, ShapeOf
  <2> QED
    BY <1>1, <1>2, <2>1 DEF ChatShape, Clients
<1>7. OfRequest(r)'
  <2>1. Mutex(r)' /\ Delivers(r)' /\ Budget(r)'
    BY <1>1, <1>2, GenerationKept
  <2>2. BodyKept(r)'
    BY <1>1, <1>2, <1>5 DEF OfRequest, BodyKept
  <2>3. Told(r)' /\ Pending(r)'
    <3>1. Told(r)'
      BY <1>2, <1>5 DEF Told
    <3>2. Pending(r)'
      BY <1>5 DEF Pending
    <3> QED
      BY <3>1, <3>2
  <2>4. ~Streamed(r)'
    <3>1. answer # RoleChunk
      BY DEF ErrorAnswer, Answer, RoleChunk
    <3>2. Len(received'[r]) = 1 /\ received'[r][1] = answer
      BY <1>5
    <3> QED
      BY <3>1, <3>2 DEF Streamed
  <2>5. Awaiting(r)'
    BY <1>5, <2>4 DEF Awaiting
  <2> QED
    BY <2>1, <2>2, <2>3, <2>5 DEF OfRequest
<1>8. Drawn'
  BY <1>2, <1>5, DrawnKept
<1> QED
  BY <1>2, <1>5, <1>6, <1>7, <1>8, StepOf

LEMMA RefuseEmptyInv ==
  ASSUME ChatInv, NEW r \in Requests, RefuseEmpty(r)
  PROVE  ChatInv'
<1>1. ErrorAnswer(400) \in Event
  BY DEF ErrorAnswer, Event
<1> QED
  BY <1>1, AnswersInv DEF RefuseEmpty

LEMMA AnswerWholeInv ==
  ASSUME ChatInv, NEW r \in Requests, AnswerWhole(r)
  PROVE  ChatInv'
<1>1. ChatShape /\ OfRequest(r) /\ client[r] = "waiting" /\ task[r] = "ended"
  BY DEF ChatInv, AnswerWhole
<1>2. body[r].stream => poisoned /\ result[r] = Failed
  BY <1>1 DEF OfRequest, Awaiting
<1>3. CASE result[r].kind = "ok"
  <2>1. Answers(r, Answer(generated[r], result[r]))
    BY <1>3 DEF AnswerWhole
  <2>2. result[r] \in [kind : {"ok"}, finish_reason : Reasons, completion_tokens : Nat]
    BY <1>1, <1>3, ShapeOf DEF Result, NotYet, Failed
  <2>3. Answer(generated[r], result[r]) \in Event
    BY <1>1, <2>2, ShapeOf DEF Answer, Event
  <2>4. ~body[r].stream
    BY <1>2, <1>3 DEF Failed
  <2> QED
    BY <1>1, <1>3, <2>1, <2>3, <2>4, AnswersInv
<1>4. CASE result[r].kind # "ok"
  <2>1. Answers(r, ErrorAnswer(500)) /\ ErrorAnswer(500) \in Event
    BY <1>4 DEF AnswerWhole, ErrorAnswer, Event
  <2> QED
    BY <1>1, <1>2, <2>1, AnswersInv
<1> QED
  BY <1>3, <1>4

LEMMA StartHandlerInv ==
  ASSUME ChatInv, NEW r \in Requests, StartHandler(r)
  PROVE  ChatInv'
<1>1. ChatShape /\ OfRequest(r) /\ client[r] = "waiting" /\ task[r] = "none"
  BY DEF ChatInv, StartHandler
<1>2. /\ task' = [task EXCEPT ![r] = "locking"]
      /\ UNCHANGED <<body, client, received, next, generated, stopped, result, channel,
                     engine, poisoned, panics>>
  BY DEF StartHandler, Goto, clientVars, loopVars, lockVars
<1>3. task'[r] = "locking" /\ \A q \in Requests \ {r} : Untouched(q)
  BY <1>1, <1>2 DEF ChatShape, Untouched
<1>4. ChatShape'
  BY <1>1, <1>2 DEF ChatShape, Tasks
<1>5. received[r] = << >>
  BY <1>1 DEF OfRequest, Awaiting
<1>6. OfRequest(r)'
  <2>1. Params(r)' = Params(r)
    BY <1>2 DEF Params
  <2>2. Mutex(r)' /\ Delivers(r)' /\ Budget(r)'
    BY <1>1, <1>2, <1>3, <2>1 DEF OfRequest, Mutex, Delivers, Budget, Holding, NotYet
  <2>3. Streamed(r)'
    <3>1. Len(received'[r]) = 0 /\ Len(generated'[r]) \in Nat
      BY <1>1, <1>2, <1>5, ShapeOf
    <3> QED
      BY <3>1 DEF Streamed
  <2>4. BodyKept(r)' /\ Told(r)' /\ Pending(r)' /\ Awaiting(r)'
    BY <1>1, <1>2, <1>3, <1>5, <2>3 DEF OfRequest, BodyKept, Told, Pending, Awaiting
  <2> QED
    BY <2>2, <2>4 DEF OfRequest
<1>7. Drawn'
  BY <1>1, <1>2, <1>3, DrawnKept
<1> QED
  BY <1>2, <1>3, <1>4, <1>6, <1>7, StepOf

LEMMA SpawnGenerationInv ==
  ASSUME ChatInv, NEW r \in Requests, SpawnGeneration(r)
  PROVE  ChatInv'
<1>1. ChatShape /\ OfRequest(r) /\ task[r] = "locking"
  BY DEF ChatInv, SpawnGeneration
<1>2. /\ task' = [task EXCEPT ![r] = "spawned"]
      /\ UNCHANGED <<body, received, next, generated, stopped, result, channel,
                     engine, poisoned, panics>>
      /\ IF body[r].stream /\ client[r] = "waiting"
         THEN client' = [client EXCEPT ![r] = "reading"] ELSE client' = client
  BY DEF SpawnGeneration, Goto, Becomes, loopVars, lockVars
<1>3. /\ Streamed(r)
      /\ client[r] \in {"waiting", "reading", "left"}
      /\ body[r] \in Bodies[r]
  BY <1>1, BeforeTheEnd
<1>4. /\ task'[r] = "spawned" /\ \A q \in Requests \ {r} : Untouched(q)
      /\ client'[r] = IF body[r].stream /\ client[r] = "waiting" THEN "reading" ELSE client[r]
  BY <1>1, <1>2 DEF ChatShape, Untouched
<1>5. ChatShape'
  BY <1>1, <1>2 DEF ChatShape, Tasks, Clients
<1>6. client[r] # "reading" /\ Len(received[r]) = 0 /\ received[r] = << >>
  <2>1. client[r] # "reading"
    BY <1>1 DEF OfRequest, Pending
  <2>2. Len(received[r]) = 0
    BY <1>1, <1>3, ShapeOf DEF Streamed
  <2> QED
    BY <1>1, <2>1, <2>2, ShapeOf
<1>7. OfRequest(r)'
  <2>1. Params(r)' = Params(r)
    BY <1>2 DEF Params
  <2>2. Mutex(r)' /\ Delivers(r)' /\ Budget(r)'
    BY <1>1, <1>2, <1>4, <2>1 DEF OfRequest, Mutex, Delivers, Budget, Holding
  <2>3. Streamed(r)'
    <3>1. Len(received'[r]) = 0 /\ Len(generated'[r]) \in Nat
      BY <1>1, <1>2, <1>6, ShapeOf
    <3> QED
      BY <3>1 DEF Streamed
  <2>4. channel[r] = generated[r]
    BY <1>1 DEF OfRequest, Budget
  <2>5. BodyKept(r)' /\ Told(r)' /\ Pending(r)' /\ Awaiting(r)'
    BY <1>2, <1>3, <1>4, <1>6, <2>3, <2>4 DEF BodyKept, Told, Pending, Awaiting
  <2> QED
    BY <2>2, <2>5 DEF OfRequest
<1>8. Drawn'
  BY <1>1, <1>2, <1>4, DrawnKept
<1> QED
  BY <1>2, <1>4, <1>5, <1>7, <1>8, StepOf

-----------------------------------------------------------------------------
(* The generation.                                                         *)

LEMMA LockEngineInv ==
  ASSUME ChatInv, NEW r \in Requests, LockEngine(r)
  PROVE  ChatInv'
<1>1. ChatShape /\ OfRequest(r) /\ task[r] = "spawned" /\ engine = NoRequest
  BY DEF ChatInv, LockEngine
<1>2. /\ task' = [task EXCEPT ![r] = "sample"] /\ engine' = r
      /\ UNCHANGED <<body, client, received, next, generated, stopped, result, channel,
                     poisoned, panics>>
  BY DEF LockEngine, Goto, clientVars, loopVars
<1>3. task'[r] = "sample" /\ \A q \in Requests \ {r} : Untouched(q)
  BY <1>1, <1>2 DEF ChatShape, Untouched
<1>4. ChatShape'
  BY <1>1, <1>2 DEF ChatShape, Tasks, Holding
<1>5. OfRequest(r)'
  <2>1. Params(r)' = Params(r)
    BY <1>2 DEF Params
  <2>2. Mutex(r)' /\ Delivers(r)'
    BY <1>2, <1>3 DEF Mutex, Delivers, Holding
  <2>3. Budget(r)'
    <3>1. generated[r] = << >> /\ stopped[r] = << >> /\ result[r] = NotYet
      BY <1>1 DEF OfRequest, Budget
    <3>2. Params(r).max_tokens \in Nat
      BY <1>1, BeforeTheEnd, ParamsAreOptions DEF Options
    <3>3. Len(generated[r]) = 0 /\ NotYet.kind = "none"
      BY <3>1 DEF NotYet
    <3> HIDE DEF NotYet
    <3> QED
      BY <1>2, <1>3, <2>1, <3>1, <3>2, <3>3 DEF Budget
  <2>4. BodyKept(r)' /\ Told(r)' /\ Pending(r)' /\ Awaiting(r)'
    BY <1>1, <1>2, <1>3, NothingEmitted
  <2> QED
    BY <2>2, <2>3, <2>4 DEF OfRequest
<1>6. Drawn'
  BY <1>1, <1>2, <1>3, DrawnKept
<1> QED
  BY <1>1, <1>2, <1>3, <1>4, <1>5, <1>6, StepOf

(* A failure counts nothing.                                               *)
LEMMA FailedBudget ==
  ASSUME NEW r \in Requests, task'[r] = "ended", result'[r] = Failed
  PROVE  Budget(r)'
<1>1. Failed.kind # "ok"
  BY DEF Failed
<1>2. result[r]'.kind # "ok"
  BY <1>1
<1> HIDE DEF Failed
<1> QED
  BY <1>2 DEF Budget

LEMMA EngineIsPoisonedInv ==
  ASSUME ChatInv, NEW r \in Requests, EngineIsPoisoned(r)
  PROVE  ChatInv'
<1>1. ChatShape /\ OfRequest(r) /\ task[r] \in {"locking", "spawned"} /\ poisoned
  BY DEF ChatInv, EngineIsPoisoned
<1>2. /\ task' = [task EXCEPT ![r] = "ended"]
      /\ result' = [result EXCEPT ![r] = Failed]
      /\ UNCHANGED <<body, client, received, next, generated, stopped, channel,
                     engine, poisoned, panics>>
  BY DEF EngineIsPoisoned, Goto, clientVars, lockVars
<1>3. /\ task'[r] = "ended" /\ result'[r] = Failed
      /\ \A q \in Requests \ {r} : Untouched(q)
  BY <1>1, <1>2 DEF ChatShape, Untouched
<1>4. ChatShape'
  BY <1>1, <1>2 DEF ChatShape, Tasks, Result
<1>5. OfRequest(r)'
  <2>1. Mutex(r)' /\ Delivers(r)' /\ Budget(r)'
    BY <1>1, <1>2, <1>3, FailedBudget DEF OfRequest, Mutex, Delivers, Holding
  <2>2. BodyKept(r)' /\ Told(r)' /\ Pending(r)' /\ Awaiting(r)'
    BY <1>1, <1>2, <1>3, NothingEmitted
  <2> QED
    BY <2>1, <2>2 DEF OfRequest
<1>6. Drawn'
  BY <1>1, <1>2, <1>3, DrawnKept
<1> QED
  BY <1>2, <1>3, <1>4, <1>5, <1>6, StepOf

(* A generation that works ends: it lets go of the Mutex, and its result   *)
(* is a failure or what publish found.                                     *)
LEMMA EndsInv ==
  ASSUME ChatInv, NEW r \in Requests, Ends(r), task[r] \in Holding,
         UNCHANGED <<body, client, received, generated, stopped, channel>>,
         poisoned => poisoned', next' = NotYet,
         \/ result' = [result EXCEPT ![r] = Failed]
         \/ result' = result /\ task[r] = "publish"
  PROVE  ChatInv'
<1>1. ChatShape /\ OfRequest(r)
  BY DEF ChatInv
<1>2. task' = [task EXCEPT ![r] = "ended"] /\ engine' = NoRequest
  BY DEF Ends, Goto
<1>3. task'[r] = "ended" /\ \A q \in Requests \ {r} : Untouched(q)
  BY <1>1, <1>2 DEF ChatShape, Untouched
<1>4. result'[r] = Failed \/ (result'[r] = result[r] /\ task[r] = "publish")
  BY <1>1 DEF ChatShape
<1>5. ChatShape'
  BY <1>1, <1>2 DEF ChatShape, Tasks, Result
<1>6. OfRequest(r)'
  <2>1. Params(r)' = Params(r)
    BY DEF Params
  <2>2. Mutex(r)' /\ Delivers(r)'
    BY <1>2, <1>3, ChatAssumption DEF Mutex, Delivers, Holding
  <2>3. Budget(r)'
    <3>1. CASE result'[r] = Failed
      BY <1>3, <3>1, FailedBudget
    <3>2. CASE result'[r] = result[r] /\ task[r] = "publish"
      BY <1>1, <1>3, <2>1, <3>2 DEF OfRequest, Budget
    <3> QED
      BY <1>4, <3>1, <3>2
  <2>4. BodyKept(r)' /\ Told(r)' /\ Pending(r)' /\ Awaiting(r)'
    BY <1>1, <1>3, NothingEmitted DEF Holding
  <2> QED
    BY <2>2, <2>3, <2>4 DEF OfRequest
<1>7. Drawn'
  BY DEF Drawn
<1> QED
  BY <1>2, <1>3, <1>5, <1>6, <1>7, StepOf

(* While it publishes, nothing is sampled.                                 *)
LEMMA NothingSampled ==
  ASSUME ChatInv, NEW r \in Requests, task[r] \in Holding, task[r] # "deliver"
  PROVE  next = NotYet
BY Exclusive DEF ChatInv, Drawn, Holding

LEMMA GenerateFailsInv ==
  ASSUME ChatInv, NEW r \in Requests, GenerateFails(r)
  PROVE  ChatInv'
BY EndsInv DEF GenerateFails, Holding, clientVars

LEMMA PublishInv ==
  ASSUME ChatInv, NEW r \in Requests, Publish(r)
  PROVE  ChatInv'
BY EndsInv, NothingSampled DEF Publish, Holding, clientVars, loopVars

LEMMA PanicInv ==
  ASSUME ChatInv, NEW r \in Requests, Panic(r)
  PROVE  ChatInv'
BY EndsInv DEF Panic, clientVars

LEMMA SampleInv ==
  ASSUME ChatInv, NEW r \in Requests, Sample(r)
  PROVE  ChatInv'
<1>1. ChatShape /\ OfRequest(r) /\ task[r] = "sample"
  BY DEF ChatInv, Sample
<1>2. /\ task' = [task EXCEPT ![r] = "deliver"]
      /\ UNCHANGED <<body, client, received, generated, stopped, result, channel,
                     engine, poisoned, panics>>
      /\ Len(generated[r]) < Params(r).max_tokens
  BY DEF Sample, Goto, clientVars, lockVars
<1>3. task'[r] = "deliver" /\ \A q \in Requests \ {r} : Untouched(q)
  BY <1>1, <1>2 DEF ChatShape, Untouched
<1>4. PICK row \in LogitRows :
        \E t \in Samples(Penalised(row, Prompt \o generated[r]), Params(r)) :
          next' = [kind |-> "sampled", logits |-> Penalised(row, Prompt \o generated[r]),
                   token |-> t]
  BY DEF Sample
<1>5. PICK logits : logits = Penalised(row, Prompt \o generated[r])
  OBVIOUS
<1>6. logits \in Logits
  <2>1. row \in Logits
    BY ChatAssumption DEF Logits
  <2> QED
    BY <1>5, <2>1, PenalisedIsRow
<1>7. PICK t \in Samples(logits, Params(r)) :
        next' = [kind |-> "sampled", logits |-> logits, token |-> t]
  BY <1>4, <1>5
<1>8. t \in Tokens
  BY <1>6, SamplesAreTokens
<1>9. next' \in Sampled /\ next' # NotYet /\ next'.token = t /\ next'.logits = logits
  BY <1>6, <1>7, <1>8 DEF Sampled, NotYet
<1>10. ChatShape'
  BY <1>1, <1>2, <1>9 DEF ChatShape, Tasks, Holding
<1>11. Params(r)' = Params(r)
  BY <1>2 DEF Params
<1>12. OfRequest(r)'
  <2>1. Mutex(r)' /\ Delivers(r)'
    BY <1>1, <1>2, <1>3, <1>9 DEF OfRequest, Mutex, Delivers, Holding
  <2>2. Budget(r)'
    BY <1>1, <1>2, <1>3, <1>11 DEF OfRequest, Budget
  <2>3. BodyKept(r)' /\ Told(r)' /\ Pending(r)' /\ Awaiting(r)'
    BY <1>1, <1>2, <1>3, NothingEmitted
  <2> QED
    BY <2>1, <2>2, <2>3 DEF OfRequest
<1>13. Drawn'
  BY <1>3, <1>7, <1>9, <1>11 DEF Drawn
<1>14. task[r] \in Holding /\ engine' = r
  BY <1>1, <1>2 DEF OfRequest, Mutex, Holding
<1> QED
  BY <1>2, <1>3, <1>10, <1>12, <1>13, <1>14, StepOf

(* The loop is left with a count and a reason.                             *)
LEMMA LeaveLoopInv ==
  ASSUME ChatInv, NEW r \in Requests, NEW reason \in Reasons, NEW n \in Nat,
         LeaveLoop(r, reason, n), task[r] \in {"sample", "deliver"},
         UNCHANGED <<body, client, received, generated, channel, engine, poisoned>>,
         next' = NotYet,
         \/ stopped' = stopped /\ n = Len(generated[r])
         \/ \E t \in Tokens : stopped' = [stopped EXCEPT ![r] = <<t>>]
                              /\ n = Len(generated[r]) + 1,
         n <= Params(r).max_tokens,
         reason = "length" <=> Len(generated[r]) = Params(r).max_tokens
  PROVE  ChatInv'
<1>1. ChatShape /\ OfRequest(r)
  BY DEF ChatInv
<1>2. /\ task' = [task EXCEPT ![r] = "publish"]
      /\ result' = [result EXCEPT ![r] = Stats(reason, n)]
  BY DEF LeaveLoop, Goto
<1>3. Stats(reason, n) \in Result
  BY DEF Stats, Result
<1>4. /\ task'[r] = "publish" /\ result'[r] = Stats(reason, n)
      /\ \A q \in Requests \ {r} : Untouched(q)
  BY <1>1, <1>2 DEF ChatShape, Untouched
<1>5. stopped' \in [Requests -> Seq(Tokens)]
  <2>1. \A t \in Tokens : <<t>> \in Seq(Tokens)
    OBVIOUS
  <2> QED
    BY <1>1, <2>1 DEF ChatShape
<1>6. ChatShape'
  BY <1>1, <1>2, <1>3, <1>5 DEF ChatShape, Tasks, Holding
<1>7. n = Len(generated[r]) + Len(stopped'[r])
  <2>1. CASE stopped' = stopped /\ n = Len(generated[r])
    <3>1. stopped[r] = << >>
      BY <1>1 DEF OfRequest, Budget
    <3> QED
      BY <1>1, <2>1, <3>1, ShapeOf
  <2>2. ASSUME NEW t \in Tokens, stopped' = [stopped EXCEPT ![r] = <<t>>],
               n = Len(generated[r]) + 1
        PROVE  n = Len(generated[r]) + Len(stopped'[r])
    <3>1. stopped'[r] = <<t>>
      BY <1>1, <2>2 DEF ChatShape
    <3> QED
      BY <2>2, <3>1
  <2> QED
    BY <2>1, <2>2
<1>8. OfRequest(r)'
  <2>1. Params(r)' = Params(r)
    BY DEF Params
  <2>2. Mutex(r)' /\ Delivers(r)'
    BY <1>1, <1>4 DEF OfRequest, Mutex, Delivers, Holding
  <2>3. Budget(r)'
    <3>1. /\ result[r]'.completion_tokens = n
          /\ result[r]'.finish_reason = reason
      BY <1>4 DEF Stats
    <3> HIDE DEF Stats
    <3> QED
      BY <1>4, <1>7, <2>1, <3>1 DEF Budget
  <2>4. BodyKept(r)' /\ Told(r)' /\ Pending(r)' /\ Awaiting(r)'
    BY <1>1, <1>4, NothingEmitted
  <2> QED
    BY <2>2, <2>3, <2>4 DEF OfRequest
<1>9. Drawn'
  BY DEF Drawn
<1>10. task[r] \in Holding /\ engine' = r
  BY <1>1 DEF OfRequest, Mutex, Holding
<1> QED
  BY <1>4, <1>6, <1>8, <1>9, <1>10, StepOf

(* The number of pieces and the budget, of a generation that works.        *)
LEMMA WithinBudget ==
  ASSUME ChatInv, NEW r \in Requests, task[r] \in {"sample", "deliver"}
  PROVE  /\ Len(generated[r]) \in Nat /\ Params(r).max_tokens \in Nat
         /\ task[r] = "deliver" =>
              Len(generated[r]) < Params(r).max_tokens /\ next.token \in Tokens
<1>1. ChatShape /\ OfRequest(r)
  BY DEF ChatInv
<1>2. Params(r).max_tokens \in Nat
  BY <1>1, BeforeTheEnd, ParamsAreOptions DEF Options
<1>3. task[r] = "deliver" => next \in Sampled
  BY <1>1 DEF OfRequest, Delivers, ChatShape
<1> QED
  BY <1>1, <1>2, <1>3, ShapeOf DEF OfRequest, Budget, Sampled

LEMMA StopAtLengthInv ==
  ASSUME ChatInv, NEW r \in Requests, StopAtLength(r)
  PROVE  ChatInv'
<1>1. next = NotYet
  BY NothingSampled DEF StopAtLength, Holding
<1>2. Len(generated[r]) \in Nat /\ Len(generated[r]) = Params(r).max_tokens
  BY WithinBudget DEF StopAtLength
<1> QED
  BY <1>1, <1>2, LeaveLoopInv
    DEF StopAtLength, Reasons, clientVars, lockVars

LEMMA StopAtEosInv ==
  ASSUME ChatInv, NEW r \in Requests, StopAtEos(r)
  PROVE  ChatInv'
<1>1. /\ Len(generated[r]) \in Nat /\ Params(r).max_tokens \in Nat
      /\ Len(generated[r]) < Params(r).max_tokens
  BY WithinBudget DEF StopAtEos
<1> QED
  BY <1>1, LeaveLoopInv DEF StopAtEos, Reasons, clientVars, lockVars

LEMMA StopAtStringInv ==
  ASSUME ChatInv, NEW r \in Requests, StopAtString(r)
  PROVE  ChatInv'
<1>1. /\ Len(generated[r]) \in Nat /\ Params(r).max_tokens \in Nat
      /\ Len(generated[r]) < Params(r).max_tokens
      /\ next.token \in Tokens
  BY WithinBudget DEF StopAtString
<1>2. Len(generated[r]) + 1 \in Nat /\ Len(generated[r]) + 1 <= Params(r).max_tokens
  BY <1>1
<1>3. "stop" \in Reasons /\ "stop" # "length"
  BY DEF Reasons
<1>4. PICK n \in Nat : n = Len(generated[r]) + 1
  BY <1>2
<1>5. \E t \in Tokens : stopped' = [stopped EXCEPT ![r] = <<t>>] /\ n = Len(generated[r]) + 1
  BY <1>1, <1>4 DEF StopAtString
<1>6. /\ LeaveLoop(r, "stop", n) /\ task[r] \in {"sample", "deliver"} /\ next' = NotYet
      /\ UNCHANGED <<body, client, received, generated, channel, engine, poisoned>>
  BY <1>4 DEF StopAtString, clientVars, lockVars
<1>7. n <= Params(r).max_tokens /\ Len(generated[r]) # Params(r).max_tokens
  BY <1>1, <1>2, <1>4
<1> HIDE DEF LeaveLoop
<1> QED
  BY <1>3, <1>5, <1>6, <1>7, LeaveLoopInv

(* A sequence and one more element.                                        *)
LEMMA OneMore ==
  ASSUME NEW S, NEW s \in Seq(S), NEW e \in S
  PROVE  /\ Append(s, e) \in Seq(S)
         /\ Len(s) \in Nat
         /\ Len(Append(s, e)) = Len(s) + 1
         /\ \A i \in 1 .. Len(s) : Append(s, e)[i] = s[i]
         /\ Append(s, e)[Len(s) + 1] = e
BY AppendProperties, LenProperties

LEMMA EmitInv ==
  ASSUME ChatInv, NEW r \in Requests, Emit(r)
  PROVE  ChatInv'
<1>1. ChatShape /\ OfRequest(r) /\ task[r] = "deliver"
  BY DEF ChatInv, Emit
<1>2. PICK t \in Tokens : t = next.token
  BY <1>1, WithinBudget
<1>3. /\ generated' = [generated EXCEPT ![r] = Append(generated[r], t)]
      /\ IF client[r] = "reading" THEN channel' = [channel EXCEPT ![r] = Append(channel[r], t)]
         ELSE channel' = channel
      /\ next' = NotYet
      /\ task' = [task EXCEPT ![r] = "sample"]
      /\ UNCHANGED <<body, client, received, stopped, result, engine, poisoned, panics>>
  BY <1>2 DEF Emit, Goto, clientVars, lockVars
<1> DEFINE g == generated[r]
           c == channel[r]
           n == Len(received[r])
<1>4. /\ task'[r] = "sample" /\ generated'[r] = Append(g, t)
      /\ client[r] = "reading" => channel'[r] = Append(c, t)
      /\ client[r] # "reading" => channel'[r] = c
      /\ \A q \in Requests \ {r} : Untouched(q)
  BY <1>1, <1>3 DEF ChatShape, Untouched
<1>5. g \in Seq(Tokens) /\ c \in Seq(Tokens) /\ n \in Nat
  BY <1>1, ShapeOf
<1>6. /\ Append(g, t) \in Seq(Tokens) /\ Len(g) \in Nat
      /\ Len(Append(g, t)) = Len(g) + 1
      /\ \A i \in 1 .. Len(g) : Append(g, t)[i] = g[i]
      /\ Append(g, t)[Len(g) + 1] = t
  BY <1>5, OneMore
<1>7. /\ Append(c, t) \in Seq(Tokens) /\ Len(c) \in Nat
      /\ Len(Append(c, t)) = Len(c) + 1
      /\ \A i \in 1 .. Len(c) : Append(c, t)[i] = c[i]
      /\ Append(c, t)[Len(c) + 1] = t
  BY <1>5, OneMore
<1>8. ChatShape'
  BY <1>1, <1>3, <1>6, <1>7 DEF ChatShape, Tasks, Holding
<1>9. /\ Streamed(r) /\ n <= Len(g) + 1
      /\ client[r] \in {"waiting", "reading", "left"}
      /\ body[r] \in Bodies[r]
      /\ client[r] = "waiting" => ~body[r].stream
  BY <1>1, BeforeTheEnd
<1>10. OfRequest(r)'
  <2>1. Params(r)' = Params(r)
    BY <1>3 DEF Params
  <2>2. Mutex(r)' /\ Delivers(r)'
    BY <1>1, <1>3, <1>4 DEF OfRequest, Mutex, Delivers, Holding
  <2>3. Budget(r)'
    <3>1. /\ Len(g) < Params(r).max_tokens /\ Params(r).max_tokens \in Nat
          /\ result[r] = NotYet /\ stopped[r] = << >>
      BY <1>1, WithinBudget DEF OfRequest, Budget
    <3>2. result[r].kind # "ok"
      BY <3>1 DEF NotYet
    <3>3. Len(Append(g, t)) <= Params(r).max_tokens
      BY <1>6, <3>1
    <3> QED
      BY <1>3, <1>4, <2>1, <3>1, <3>2, <3>3 DEF Budget
  <2>4. Streamed(r)'
    <3>1. ASSUME n > 0
          PROVE  body[r].stream /\ received[r][1] = RoleChunk
      BY <1>9, <3>1 DEF Streamed
    <3>2. ASSUME NEW i \in 2 .. n
          PROVE  received[r][i] = DeltaChunk(Append(g, t)[i - 1])
      <4>1. i - 1 \in 1 .. Len(g) /\ i <= Len(g) + 1
        BY <1>5, <1>6, <1>9
      <4>2. received[r][i] = DeltaChunk(g[i - 1])
        BY <1>9, <4>1 DEF Streamed
      <4> QED
        BY <1>6, <4>1, <4>2
    <3>3. ~(n > Len(Append(g, t)) + 1)
      BY <1>5, <1>6, <1>9
    <3> QED
      BY <1>3, <1>4, <3>1, <3>2, <3>3 DEF Streamed
  <2>5. Pending(r)'
    <3> SUFFICES ASSUME client[r] = "reading" PROVE Pending(r)'
      BY <1>3 DEF Pending
    <3>1. /\ body[r].stream
          /\ n = 0 => c = g
          /\ n > 0 => /\ Len(c) = Len(g) + 1 - n
                      /\ \A j \in 1 .. Len(c) : c[j] = g[n - 1 + j]
      BY <1>1, <1>5, <1>9 DEF OfRequest, Pending
    <3> DEFINE lg == Len(g)
               lc == Len(c)
               lgt == Len(Append(g, t))
               lct == Len(Append(c, t))
    <3>a. /\ n \in Nat /\ lg \in Nat /\ lc \in Nat
          /\ lgt = lg + 1 /\ lct = lc + 1
      BY <1>5, <1>6, <1>7
    <3>b. n > 0 => lc = lg + 1 - n
      BY <3>1
    <3>2. n = 0 => channel'[r] = generated'[r]
      BY <1>4, <3>1
    <3>3. ASSUME n > 0, NEW j \in 1 .. Len(c) + 1
          PROVE  Append(c, t)[j] = Append(g, t)[n - 1 + j]
      <4>1. CASE j = Len(c) + 1
        <5>1. n - 1 + j = lg + 1
          <6>1. n > 0 /\ j = lc + 1
            BY <3>3, <4>1
          <6> HIDE DEF n, lg, lc
          <6> QED
            BY <3>a, <3>b, <6>1
        <5> QED
          BY <1>6, <1>7, <4>1, <5>1
      <4>2. CASE j \in 1 .. Len(c)
        <5>1. n - 1 + j \in 1 .. lg
          <6>1. n > 0 /\ j \in 1 .. lc
            BY <3>3, <4>2
          <6> HIDE DEF n, lg, lc
          <6> QED
            BY <3>a, <3>b, <6>1
        <5> QED
          BY <1>6, <1>7, <3>1, <3>3, <4>2, <5>1
      <4>3. j = lc + 1 \/ j \in 1 .. lc
        <5> HIDE DEF lc
        <5> QED
          BY <3>a, <3>3 DEF lc
      <4> QED
        BY <4>1, <4>2, <4>3
    <3>4. n > 0 => lct = lgt + 1 - n
      <4> HIDE DEF n, lg, lc, lgt, lct
      <4> QED
        BY <3>a, <3>b
    <3>5. ~(n > Len(Append(g, t)) + 1)
      BY <1>5, <1>6, <1>9
    <3> QED
      BY <1>3, <1>4, <1>7, <3>1, <3>2, <3>3, <3>4, <3>5 DEF Pending
  <2>6. Told(r)' /\ BodyKept(r)'
    BY <1>3, <1>9, <2>4 DEF Told, BodyKept
  <2>7. Awaiting(r)'
    BY <1>1, <1>3, <1>9, <2>4 DEF OfRequest, Awaiting
  <2> QED
    BY <2>2, <2>3, <2>5, <2>6, <2>7 DEF OfRequest
<1>11. Drawn'
  BY <1>3 DEF Drawn
<1>12. task[r] \in Holding /\ engine' = r
  BY <1>1, <1>3 DEF OfRequest, Mutex, Holding
<1> QED
  BY <1>3, <1>4, <1>8, <1>10, <1>11, <1>12, StepOf

-----------------------------------------------------------------------------
(* The body of the response.                                               *)

(* A step that only gives the client an event, takes a piece from the      *)
(* channel or moves the client.                                            *)
LEMMA StreamStepInv ==
  ASSUME ChatInv, NEW r \in Requests, \A q \in Requests \ {r} : Untouched(q),
         UNCHANGED <<body, task, next, generated, stopped, result, engine, poisoned>>,
         client' \in [Requests -> Clients], received' \in [Requests -> Seq(Event)],
         channel' \in [Requests -> Seq(Tokens)],
         client[r] # "new", client'[r] # "new",
         channel'[r] = channel[r] \/ task[r] \notin {"none", "locking", "spawned"}
                                  \/ channel'[r] = << >>,
         Told(r)', Pending(r)', Awaiting(r)'
  PROVE  ChatInv'
<1>1. ChatShape /\ OfRequest(r)
  BY DEF ChatInv
<1>2. ChatShape'
  BY <1>1 DEF ChatShape
<1>3. Params(r)' = Params(r)
  BY DEF Params
<1>4. Mutex(r)' /\ Delivers(r)' /\ BodyKept(r)'
  BY <1>1 DEF OfRequest, Mutex, Delivers, BodyKept
<1>5. Budget(r)'
  BY <1>1, <1>3 DEF OfRequest, Budget
<1>6. OfRequest(r)'
  BY <1>4, <1>5 DEF OfRequest
<1>7. Drawn'
  BY DrawnKept
<1> QED
  BY <1>2, <1>6, <1>7, StepOf

(* What a client that reads has, and what it still has to get.             *)
LEMMA Reading ==
  ASSUME ChatInv, NEW r \in Requests, client[r] = "reading"
  PROVE  /\ ChatShape /\ OfRequest(r) /\ Streamed(r) /\ Pending(r)
         /\ body[r].stream /\ task[r] \notin {"none", "locking"}
         /\ Len(received[r]) \in Nat /\ Len(generated[r]) \in Nat
         /\ Len(channel[r]) \in Nat /\ Len(Closing(r)) \in Nat
         /\ (received[r] = << >>) <=> (Len(received[r]) = 0)
         /\ (channel[r] = << >>) <=> (Len(channel[r]) = 0)
<1>1. ChatShape /\ OfRequest(r)
  BY DEF ChatInv
<1>2. Len(Closing(r)) \in Nat
  BY <1>1, ShapeOf, ClosingForm
<1>3. /\ received[r] \in Seq(Event) /\ channel[r] \in Seq(Tokens)
      /\ Len(received[r]) \in Nat /\ Len(generated[r]) \in Nat /\ Len(channel[r]) \in Nat
  BY <1>1, ShapeOf
<1>4. /\ (received[r] = << >>) <=> (Len(received[r]) = 0)
      /\ (channel[r] = << >>) <=> (Len(channel[r]) = 0)
  BY <1>3
<1> QED
  BY <1>1, <1>2, <1>3, <1>4 DEF OfRequest, Awaiting, Pending

LEMMA StreamRoleInv ==
  ASSUME ChatInv, NEW r \in Requests, StreamRole(r)
  PROVE  ChatInv'
<1>1. /\ ChatShape /\ OfRequest(r) /\ Streamed(r) /\ Pending(r)
      /\ body[r].stream /\ task[r] \notin {"none", "locking"}
      /\ received[r] = << >> /\ Len(received[r]) = 0 /\ Len(generated[r]) \in Nat
      /\ client[r] = "reading"
  BY Reading DEF StreamRole
<1>2. /\ received' = [received EXCEPT ![r] = Append(@, RoleChunk)]
      /\ UNCHANGED <<body, client, task, next, generated, stopped, result, channel,
                     engine, poisoned, panics>>
  BY DEF StreamRole, Receives, loopVars, lockVars
<1>3. RoleChunk \in Event
  BY DEF Event
<1>4. received' \in [Requests -> Seq(Event)]
  BY <1>1, <1>2, <1>3, ShapeOf DEF ChatShape
<1>5. Append(<< >>, RoleChunk) = <<RoleChunk>>
  OBVIOUS
<1>6. received'[r] = <<RoleChunk>> /\ \A q \in Requests \ {r} : Untouched(q)
  BY <1>1, <1>2, <1>5 DEF ChatShape, Untouched
<1>7. Len(received'[r]) = 1 /\ received'[r][1] = RoleChunk
  BY <1>6
<1>8. Streamed(r)'
  BY <1>1, <1>2, <1>7 DEF Streamed
<1>9. channel[r] = generated[r]
  BY <1>1 DEF Pending
<1>10. Pending(r)'
  <2> DEFINE g == Len(generated[r])
  <2>1. g \in Nat
    BY <1>1
  <2>2. /\ 1 <= g + 1 /\ ~(1 > g + 1) /\ g = g + 1 - 1
        /\ \A j \in 1 .. g : 1 - 1 + j = j
    <3> HIDE DEF g
    <3> QED
      BY <2>1
  <2>3. /\ received[r]' = received'[r] /\ channel[r]' = generated[r] /\ generated[r]' = generated[r]
    BY <1>2, <1>9
  <2> QED
    BY <1>1, <1>2, <1>7, <2>2, <2>3 DEF Pending
<1>11. Told(r)' /\ Awaiting(r)'
  BY <1>1, <1>2, <1>8 DEF Told, Awaiting
<1>12. client' \in [Requests -> Clients] /\ channel' \in [Requests -> Seq(Tokens)]
  BY <1>1, <1>2 DEF ChatShape
<1> QED
  BY <1>1, <1>2, <1>4, <1>6, <1>10, <1>11, <1>12, StreamStepInv

LEMMA StreamDeltaInv ==
  ASSUME ChatInv, NEW r \in Requests, StreamDelta(r)
  PROVE  ChatInv'
<1> DEFINE n == Len(received[r])
           g == generated[r]
           c == channel[r]
           e == DeltaChunk(Head(c))
<1>1. /\ ChatShape /\ OfRequest(r) /\ Streamed(r) /\ Pending(r)
      /\ body[r].stream /\ task[r] \notin {"none", "locking"}
      /\ n \in Nat /\ n # 0 /\ Len(g) \in Nat /\ Len(c) \in Nat /\ Len(c) # 0 /\ c # << >>
      /\ client[r] = "reading"
  BY Reading DEF StreamDelta
<1>2. /\ received' = [received EXCEPT ![r] = Append(@, e)]
      /\ channel' = [channel EXCEPT ![r] = Tail(@)]
      /\ UNCHANGED <<body, client, task, next, generated, stopped, result,
                     engine, poisoned, panics>>
  BY DEF StreamDelta, Receives, loopVars, lockVars
<1>3. c \in Seq(Tokens) /\ received[r] \in Seq(Event)
  BY <1>1, ShapeOf
<1>4. /\ Head(c) \in Tokens /\ Head(c) = c[1]
      /\ Tail(c) \in Seq(Tokens) /\ Len(Tail(c)) = Len(c) - 1
      /\ \A j \in 1 .. Len(Tail(c)) : Tail(c)[j] = c[j + 1]
  BY <1>1, <1>3, HeadTailProperties
<1>5. e \in Event
  BY <1>4 DEF Event, DeltaChunk
<1> DEFINE lg == Len(g)
           lc == Len(c)
           lt == Len(Tail(c))
<1>6. n > 0 /\ n <= lg + 1 /\ lc = lg + 1 - n /\ \A j \in 1 .. lc : c[j] = g[n - 1 + j]
  <2>1. n > 0 /\ ~(n > lg + 1) => n <= lg + 1
    BY <1>1
  <2>2. n > 0 /\ ~(n > lg + 1)
    BY <1>1 DEF Pending
  <2> HIDE DEF lg, lc
  <2> QED
    BY <1>1, <2>1, <2>2 DEF Pending, lg, lc
<1>a. n \in Nat /\ n # 0 /\ lg \in Nat /\ lc \in Nat /\ lc # 0
  BY <1>1
<1>b. n <= lg + 1 /\ lc = lg + 1 - n
  BY <1>6
<1>c. lt = lc - 1
  BY <1>4
<1>7. e = DeltaChunk(g[n]) /\ n <= Len(g)
  <2>1. n <= lg /\ 1 \in 1 .. lc /\ n - 1 + 1 = n
    <3> HIDE DEF n, lg, lc
    <3> QED
      BY <1>a, <1>b
  <2> QED
    BY <1>4, <1>6, <2>1
<1> HIDE DEF e
<1>8. /\ received'[r] = Append(received[r], e) /\ channel'[r] = Tail(c)
      /\ \A q \in Requests \ {r} : Untouched(q)
  BY <1>1, <1>2 DEF ChatShape, Untouched
<1>9. /\ Append(received[r], e) \in Seq(Event)
      /\ Len(Append(received[r], e)) = n + 1
      /\ \A i \in 1 .. n : Append(received[r], e)[i] = received[r][i]
      /\ Append(received[r], e)[n + 1] = e
  BY <1>3, <1>5, OneMore
<1> DEFINE a == Append(received[r], e)
<1> HIDE DEF a
<1>10. received'[r] = a /\ a \in Seq(Event) /\ Len(a) = n + 1 /\ a[n + 1] = e
       /\ \A i \in 1 .. n : a[i] = received[r][i]
  BY <1>8, <1>9 DEF a
<1>11. Streamed(r)'
  <2>1. a[1] = RoleChunk
    BY <1>1, <1>10 DEF Streamed
  <2>2. ASSUME NEW i \in 2 .. n + 1 PROVE a[i] = DeltaChunk(g[i - 1])
    <3>1. CASE i = n + 1
      BY <1>1, <1>7, <1>10, <3>1
    <3>2. CASE i \in 2 .. n
      <4>1. i \in 1 .. n /\ i <= Len(g) + 1
        BY <1>1, <1>7, <3>2
      <4> QED
        BY <1>1, <1>10, <3>2, <4>1 DEF Streamed
    <3> QED
      BY <1>1, <3>1, <3>2
  <2>3. ~(n + 1 > Len(g) + 1)
    BY <1>1, <1>7
  <2> QED
    BY <1>1, <1>2, <1>10, <2>1, <2>2, <2>3 DEF Streamed
<1>12. Pending(r)'
  <2>1. lt = lg + 1 - (n + 1)
    <3> HIDE DEF n, lg, lc, lt
    <3> QED
      BY <1>a, <1>b, <1>c
  <2>2. ASSUME NEW j \in 1 .. lt PROVE Tail(c)[j] = g[(n + 1) - 1 + j]
    <3>1. j + 1 \in 1 .. lc /\ n - 1 + (j + 1) = (n + 1) - 1 + j
      <4> HIDE DEF n, lc, lt
      <4> QED
        BY <1>a, <1>c
    <3> QED
      BY <1>4, <1>6, <3>1
  <2>3. ~(n + 1 > lg + 1) /\ n + 1 # 0
    BY <1>1, <1>7
  <2>4. /\ Len(received'[r]) = n + 1 /\ generated'[r] = g /\ channel'[r] = Tail(c)
        /\ body'[r].stream /\ task'[r] \notin {"none", "locking"}
    BY <1>1, <1>2, <1>8, <1>10
  <2> HIDE DEF n, g, c
  <2> QED
    BY ONLY <2>1, <2>2, <2>3, <2>4 DEF Pending, lg, lt
<1>13. Told(r)' /\ Awaiting(r)'
  BY <1>1, <1>2, <1>11 DEF Told, Awaiting
<1>14. /\ client' \in [Requests -> Clients] /\ channel' \in [Requests -> Seq(Tokens)]
       /\ received' \in [Requests -> Seq(Event)]
  BY <1>1, <1>2, <1>4, <1>9 DEF ChatShape
<1>15. task[r] \notin {"none", "locking", "spawned"}
  BY <1>1 DEF OfRequest, Budget
<1> QED
  BY <1>1, <1>2, <1>8, <1>12, <1>13, <1>14, <1>15, StreamStepInv

(* Once all the pieces are out, what else a client has are closing events. *)
LEMMA ClosingSentIs ==
  ASSUME ChatInv, NEW r \in Requests, client[r] = "reading", Joined(r)
  PROVE  \E k \in Nat :
           /\ ClosingSent(r) = k
           /\ Len(received[r]) = Len(generated[r]) + 1 + k
           /\ k <= Len(Closing(r)) /\ Len(Closing(r)) \in Nat
<1> DEFINE n == Len(received[r])
           g == Len(generated[r])
           m == Len(Closing(r))
           S == {i \in DOMAIN received[r] : received[r][i].type \notin {"role", "delta"}}
<1>1. /\ ChatShape /\ Streamed(r) /\ Pending(r)
      /\ n \in Nat /\ n # 0 /\ g \in Nat /\ m \in Nat
      /\ task[r] = "ended" /\ channel[r] = << >>
  BY Reading DEF Joined
<1>2. result[r] \in Result /\ DOMAIN received[r] = 1 .. n
  BY <1>1, ShapeOf, LenProperties
<1>3. n >= g + 1
  <2>1. n <= g + 1 => Len(channel[r]) = g + 1 - n
    <3>1. n > 0
      <4> HIDE DEF n
      <4> QED
        BY <1>1
    <3> QED
      BY <1>1, <3>1 DEF Pending, Joined
  <2>2. Len(channel[r]) = 0
    BY <1>1
  <2>3. n <= g + 1 => 0 = g + 1 - n
    BY <2>1, <2>2
  <2> HIDE DEF n, g
  <2> QED
    BY <1>1, <2>3
<1>4. n <= g + 1 + m
  <2>1. n > g + 1 => n <= g + 1 + m
    BY <1>1 DEF Streamed
  <2> HIDE DEF n, g, m
  <2> QED
    BY <1>1, <2>1
<1>5. received[r][1].type = "role"
  <2>1. n > 0
    <3> HIDE DEF n
    <3> QED
      BY <1>1
  <2>2. received[r][1] = RoleChunk
    BY <1>1, <2>1 DEF Streamed
  <2> QED
    BY <2>2 DEF RoleChunk
<1>6. ASSUME NEW i \in 2 .. n, i <= g + 1 PROVE received[r][i].type = "delta"
  <2>1. received[r][i] = DeltaChunk(generated[r][i - 1])
    BY <1>1, <1>6 DEF Streamed
  <2> QED
    BY <2>1 DEF DeltaChunk
<1>7. ASSUME NEW i \in 2 .. n, i > g + 1
      PROVE  received[r][i].type \in {"finish", "usage", "[DONE]"}
  <2>1. n > g + 1 /\ i - g - 1 \in 1 .. m
    <3> HIDE DEF n, g, m
    <3> QED
      BY <1>1, <1>4, <1>7
  <2>2. received[r][i] = Closing(r)[i - g - 1]
    BY <1>1, <1>7, <2>1 DEF Streamed
  <2> QED
    BY <1>2, <2>1, <2>2, ClosingTypes
<1>8. S = (g + 2) .. n
  <2>1. ASSUME NEW i \in 1 .. n
        PROVE  i \in (g + 2) .. n <=> received[r][i].type \notin {"role", "delta"}
    <3>1. \/ i = 1 /\ i \notin (g + 2) .. n
          \/ i \in 2 .. n /\ i <= g + 1 /\ i \notin (g + 2) .. n
          \/ i \in 2 .. n /\ i > g + 1 /\ i \in (g + 2) .. n
      <4> HIDE DEF n, g
      <4> QED
        BY <1>1, <2>1
    <3> QED
      BY <1>5, <1>6, <1>7, <3>1
  <2>2. (g + 2) .. n \subseteq 1 .. n
    <3> HIDE DEF n, g
    <3> QED
      BY <1>1
  <2> HIDE DEF n, g
  <2> QED
    BY <1>2, <2>1, <2>2
<1>9. Cardinality(S) = n - (g + 1)
  <2> HIDE DEF n, g, S
  <2> QED
    BY <1>1, <1>3, <1>8, FS_Interval
<1>10. ClosingSent(r) = n - (g + 1)
  BY <1>9 DEF ClosingSent
<1> DEFINE k == n - (g + 1)
<1>11. k \in Nat /\ n = g + 1 + k /\ k <= m
  <2> HIDE DEF n, g, m
  <2> QED
    BY <1>1, <1>3, <1>4
<1> QED
  BY <1>1, <1>10, <1>11

LEMMA StreamClosingInv ==
  ASSUME ChatInv, NEW r \in Requests, StreamClosing(r)
  PROVE  ChatInv'
<1> DEFINE n == Len(received[r])
           g == Len(generated[r])
           m == Len(Closing(r))
<1>1. /\ ChatShape /\ OfRequest(r) /\ Streamed(r) /\ Pending(r)
      /\ body[r].stream /\ task[r] = "ended"
      /\ n \in Nat /\ n # 0 /\ g \in Nat /\ m \in Nat
      /\ client[r] = "reading" /\ channel[r] = << >>
  BY Reading DEF StreamClosing, Joined
<1>2. PICK k \in Nat : ClosingSent(r) = k /\ n = g + 1 + k
  BY ClosingSentIs DEF StreamClosing
<1>3. k < m
  BY <1>2 DEF StreamClosing
<1> DEFINE e == Closing(r)[k + 1]
<1>4. /\ received' = [received EXCEPT ![r] = Append(@, e)]
      /\ UNCHANGED <<body, client, task, next, generated, stopped, result, channel,
                     engine, poisoned, panics>>
  BY <1>2 DEF StreamClosing, Receives, loopVars, lockVars
<1>5. k + 1 \in 1 .. m /\ n > 0 /\ n + 1 > g + 1 /\ n + 1 <= g + 1 + m /\ n + 1 # 0
  <2> HIDE DEF n, g, m
  <2> QED
    BY <1>1, <1>2, <1>3
<1>6. e \in Event /\ received[r] \in Seq(Event)
  <2>1. Closing(r) \in Seq(Event) /\ received[r] \in Seq(Event)
    BY <1>1, ShapeOf, ClosingForm
  <2> QED
    BY <1>5, <2>1, ElementOfSeq
<1> HIDE DEF e
<1> DEFINE a == Append(received[r], e)
<1>7. /\ a \in Seq(Event) /\ Len(a) = n + 1 /\ a[n + 1] = e
      /\ \A i \in 1 .. n : a[i] = received[r][i]
  BY <1>6, OneMore
<1>8. received'[r] = a /\ \A q \in Requests \ {r} : Untouched(q)
  BY <1>1, <1>4 DEF ChatShape, Untouched
<1>9. received' \in [Requests -> Seq(Event)]
  BY <1>1, <1>4, <1>7 DEF ChatShape
<1> HIDE DEF a
<1>10. Closing(r)' = Closing(r)
  BY <1>4 DEF Closing
<1>11. Streamed(r)'
  <2>1. a[1] = RoleChunk
    <3>1. 1 \in 1 .. n
      <4> HIDE DEF n
      <4> QED
        BY <1>1
    <3> QED
      BY <1>1, <1>5, <1>7, <3>1 DEF Streamed
  <2>2. ASSUME NEW i \in 2 .. n + 1, i <= g + 1
        PROVE  a[i] = DeltaChunk(generated[r][i - 1])
    <3>1. i \in 2 .. n /\ i \in 1 .. n
      <4> HIDE DEF n, g
      <4> QED
        BY <1>1, <1>2, <2>2
    <3> QED
      BY <1>1, <1>7, <2>2, <3>1 DEF Streamed
  <2>3. ASSUME NEW i \in 2 .. n + 1, i > g + 1
        PROVE  a[i] = Closing(r)[i - g - 1]
    <3>1. CASE i = n + 1
      <4>1. i - g - 1 = k + 1
        <5> HIDE DEF n, g
        <5> QED
          BY <1>1, <1>2, <3>1
      <4> QED
        BY <1>7, <3>1, <4>1 DEF e
    <3>2. CASE i # n + 1
      <4>1. i \in 2 .. n /\ i \in 1 .. n /\ n > g + 1
        <5> HIDE DEF n, g
        <5> QED
          BY <1>1, <2>3, <3>2
      <4> QED
        BY <1>1, <1>7, <2>3, <4>1 DEF Streamed
    <3> QED
      BY <3>1, <3>2
  <2>4. /\ Len(received[r]') = n + 1 /\ Len(generated[r]') = g /\ received[r]' = a
        /\ generated[r]' = generated[r]
    BY <1>4, <1>7, <1>8
  <2>5. body[r]'.stream /\ task[r]' = "ended"
    BY <1>1, <1>4
  <2> HIDE DEF n, g, m
  <2> QED
    BY <1>5, <1>10, <2>1, <2>2, <2>3, <2>4, <2>5 DEF Streamed, m
<1>12. Pending(r)'
  <2>1. ~(n + 1 <= g + 1)
    <3> HIDE DEF n, g
    <3> QED
      BY <1>1, <1>5
  <2>2. Len(received[r]') = n + 1 /\ Len(generated[r]') = g
    BY <1>4, <1>7, <1>8
  <2>3. body[r]'.stream /\ task[r]' = "ended" /\ channel[r]' = << >>
    BY <1>1, <1>4
  <2> HIDE DEF n, g
  <2> QED
    BY <1>5, <2>1, <2>2, <2>3 DEF Pending
<1>13. Told(r)' /\ Awaiting(r)'
  BY <1>1, <1>4, <1>11 DEF Told, Awaiting
<1>14. client' \in [Requests -> Clients] /\ channel' \in [Requests -> Seq(Tokens)]
  BY <1>1, <1>4 DEF ChatShape
<1> QED
  BY <1>1, <1>4, <1>8, <1>9, <1>12, <1>13, <1>14, StreamStepInv

LEMMA StreamEndsInv ==
  ASSUME ChatInv, NEW r \in Requests, StreamEnds(r)
  PROVE  ChatInv'
<1>1. /\ ChatShape /\ OfRequest(r) /\ Streamed(r)
      /\ client[r] = "reading" /\ task[r] = "ended" /\ received[r] # << >>
  BY Reading DEF StreamEnds, Joined
<1>2. /\ client' = [client EXCEPT ![r] = "answered"]
      /\ UNCHANGED <<body, received, task, next, generated, stopped, result, channel,
                     engine, poisoned, panics>>
  BY DEF StreamEnds, Becomes, loopVars, lockVars
<1>3. client'[r] = "answered" /\ \A q \in Requests \ {r} : Untouched(q)
  BY <1>1, <1>2 DEF ChatShape, Untouched
<1>4. PICK k \in Nat : ClosingSent(r) = k /\ Len(received[r]) = Len(generated[r]) + 1 + k
  BY ClosingSentIs DEF StreamEnds
<1>5. Len(received[r]) = 1 + Len(generated[r]) + Len(Closing(r))
  <2> DEFINE n == Len(received[r])
             g == Len(generated[r])
             m == Len(Closing(r))
  <2>1. g \in Nat /\ k = m /\ n = g + 1 + k
    BY <1>1, <1>4, ShapeOf DEF StreamEnds
  <2>2. n = 1 + g + m
    <3> HIDE DEF n, g, m
    <3> QED
      BY <2>1
  <2> QED
    BY <2>2
<1>6. Closing(r)' = Closing(r)
  BY <1>2 DEF Closing
<1>7. Streamed(r)'
  BY <1>1, <1>2, <1>6 DEF Streamed
<1>8. Told(r)' /\ Pending(r)' /\ Awaiting(r)'
  BY <1>1, <1>2, <1>3, <1>5, <1>6, <1>7 DEF Told, Pending, Awaiting
<1>9. /\ client' \in [Requests -> Clients] /\ channel' \in [Requests -> Seq(Tokens)]
      /\ received' \in [Requests -> Seq(Event)]
  BY <1>1, <1>2 DEF ChatShape, Clients
<1> QED
  BY <1>1, <1>2, <1>3, <1>8, <1>9, StreamStepInv

LEMMA ClientLeavesInv ==
  ASSUME ChatInv, NEW r \in Requests, ClientLeaves(r)
  PROVE  ChatInv'
<1>1. ChatShape /\ OfRequest(r) /\ client[r] \in {"waiting", "reading"}
  BY DEF ChatInv, ClientLeaves
<1>2. /\ client' = [client EXCEPT ![r] = "left"]
      /\ channel' = [channel EXCEPT ![r] = << >>]
      /\ UNCHANGED <<body, received, task, next, generated, stopped, result,
                     engine, poisoned, panics>>
  BY DEF ClientLeaves, Becomes, loopVars, lockVars
<1>3. /\ client'[r] = "left" /\ channel'[r] = << >>
      /\ \A q \in Requests \ {r} : Untouched(q)
  BY <1>1, <1>2 DEF ChatShape, Untouched
<1>4. Closing(r)' = Closing(r)
  BY <1>2 DEF Closing
<1>5. Streamed(r) => Streamed(r)'
  BY <1>2, <1>4 DEF Streamed
<1>6. Told(r)' /\ Pending(r)' /\ Awaiting(r)'
  BY <1>1, <1>2, <1>3, <1>5 DEF OfRequest, Told, Pending, Awaiting
<1>7. /\ client' \in [Requests -> Clients] /\ channel' \in [Requests -> Seq(Tokens)]
      /\ received' \in [Requests -> Seq(Event)]
  BY <1>1, <1>2 DEF ChatShape, Clients
<1> QED
  BY <1>1, <1>2, <1>3, <1>6, <1>7, StreamStepInv

-----------------------------------------------------------------------------
(* Every step preserves the invariant.                                     *)
LEMMA ChatNextInv == ChatInv /\ [ChatNext]_chatVars => ChatInv'
<1> SUFFICES ASSUME ChatInv, [ChatNext]_chatVars PROVE ChatInv'
  OBVIOUS
<1>1. CASE UNCHANGED chatVars
  <2>1. UNCHANGED <<body, client, received, task, next, generated, stopped, result,
                    channel, engine, poisoned, panics>>
    BY <1>1 DEF chatVars, clientVars, loopVars, lockVars
  <2>2. ChatShape'
    BY <2>1 DEF ChatInv, ChatShape
  <2>3. ASSUME NEW q \in Requests PROVE OfRequest(q)' /\ Params(q)' = Params(q)
    <3>1. OfRequest(q) /\ Mutex(q)' /\ Delivers(q)'
      BY <2>1 DEF ChatInv, OfRequest, Mutex, Delivers
    <3> QED
      BY <2>1, <3>1, Bystander DEF Params
  <2>4. Drawn'
    BY <2>1, <2>3 DEF ChatInv, Drawn
  <2> QED
    BY <2>2, <2>3, <2>4 DEF ChatInv
<1>2. ASSUME NEW r \in Requests, HandlerStep(r) PROVE ChatInv'
  BY <1>2, RefuseEmptyInv, StartHandlerInv, SpawnGenerationInv, AnswerWholeInv, Zenon
    DEF HandlerStep
<1>3. ASSUME NEW r \in Requests, GenerationStep(r) PROVE ChatInv'
  BY <1>3, LockEngineInv, EngineIsPoisonedInv, GenerateFailsInv, StopAtLengthInv, SampleInv,
    StopAtEosInv, StopAtStringInv, EmitInv, PublishInv, Zenon DEF GenerationStep
<1>4. ASSUME NEW r \in Requests, StreamStep(r) PROVE ChatInv'
  BY <1>4, StreamRoleInv, StreamDeltaInv, StreamClosingInv, StreamEndsInv, Zenon
    DEF StreamStep
<1>5. CASE ChatNext
  <2>1. PICK r \in Requests :
          \/ \E b \in Bodies[r] : Send(r, b)
          \/ ServerStep(r)
          \/ Panic(r)
          \/ ClientLeaves(r)
    BY <1>5, Zenon DEF ChatNext
  <2>2. CASE \E b \in Bodies[r] : Send(r, b)
    BY <2>2, SendInv, Zenon
  <2>3. CASE ServerStep(r)
    BY <1>2, <1>3, <1>4, <2>3, Zenon DEF ServerStep
  <2>4. CASE Panic(r)
    BY <2>4, PanicInv, Zenon
  <2>5. CASE ClientLeaves(r)
    BY <2>5, ClientLeavesInv, Zenon
  <2> QED
    BY <2>1, <2>2, <2>3, <2>4, <2>5, Zenon
<1> QED
  BY <1>1, <1>5

LEMMA ChatInvariance == ChatSpec => []ChatInv
<1>1. ChatInit => ChatInv
  BY ChatInitInv
<1>2. ChatInv /\ [ChatNext]_chatVars => ChatInv'
  BY ChatNextInv
<1> QED
  BY <1>1, <1>2, PTL DEF ChatSpec

-----------------------------------------------------------------------------
(* What the invariant says of the properties.                              *)

(* chat.rs:22-114, engine.rs:170-260: types, and one holder of the Mutex.  *)
THEOREM ChatTypeCorrect == ChatSpec => []ChatTypeOK
<1>1. ChatInv => ChatTypeOK
  <2> SUFFICES ASSUME ChatInv PROVE ChatTypeOK
    OBVIOUS
  <2>1. ASSUME NEW r \in Requests
        PROVE  /\ body[r] \in Bodies[r] \cup {None}
               /\ {generated[r], stopped[r], channel[r]} \subseteq Seq(Tokens)
               /\ (task[r] \in Holding) <=> (engine = r)
    BY ShapeOf DEF ChatInv, OfRequest, BodyKept, Mutex
  <2> QED
    BY <2>1 DEF ChatInv, ChatShape, ChatTypeOK, Clients, Tasks
<1> QED
  BY <1>1, ChatInvariance, PTL

(* The pieces and the whole of a stream, by position.                      *)
LEMMA WholeStream ==
  ASSUME ChatShape, NEW r \in Requests, NEW C \in Seq(Event)
  PROVE  /\ <<RoleChunk>> \o Deltas(r) \o C \in Seq(Event)
         /\ Len(<<RoleChunk>> \o Deltas(r) \o C) = 1 + Len(generated[r]) + Len(C)
         /\ (<<RoleChunk>> \o Deltas(r) \o C)[1] = RoleChunk
         /\ \A i \in 2 .. Len(generated[r]) + 1 :
              (<<RoleChunk>> \o Deltas(r) \o C)[i] = DeltaChunk(generated[r][i - 1])
         /\ \A i \in 1 .. Len(C) :
              (<<RoleChunk>> \o Deltas(r) \o C)[Len(generated[r]) + 1 + i] = C[i]
<1> DEFINE g == Len(generated[r])
           m == Len(C)
           D == Deltas(r)
           R == <<RoleChunk>> \o D
           W == R \o C
<1>1. generated[r] \in Seq(Tokens) /\ g \in Nat /\ m \in Nat
  BY ShapeOf, LenProperties
<1>2. DOMAIN generated[r] = 1 .. g /\ \A i \in 1 .. g : generated[r][i] \in Tokens
  BY <1>1, LenProperties, ElementOfSeq
<1>3. D \in [1 .. g -> Event] /\ \A i \in 1 .. g : D[i] = DeltaChunk(generated[r][i])
  <2>1. \A t \in Tokens : DeltaChunk(t) \in Event
    BY DEF DeltaChunk, Event
  <2> HIDE DEF g
  <2> QED
    BY <1>2, <2>1 DEF Deltas
<1>4. D \in Seq(Event) /\ Len(D) = g
  <2> HIDE DEF D, g
  <2> QED
    BY <1>1, <1>3
<1> HIDE DEF D
<1>5. <<RoleChunk>> \in Seq(Event) /\ Len(<<RoleChunk>>) = 1 /\ <<RoleChunk>>[1] = RoleChunk
  BY DEF Event
<1>6. /\ R \in Seq(Event) /\ Len(R) = 1 + g
      /\ \A i \in 1 .. 1 + g : R[i] = IF i <= 1 THEN <<RoleChunk>>[i] ELSE D[i - 1]
  <2> HIDE DEF g
  <2> QED
    BY <1>4, <1>5, ConcatProperties
<1> HIDE DEF R
<1>7. /\ W \in Seq(Event) /\ Len(W) = (1 + g) + m
      /\ \A i \in 1 .. (1 + g) + m : W[i] = IF i <= 1 + g THEN R[i] ELSE C[i - (1 + g)]
  <2>1. /\ R \o C \in Seq(Event) /\ Len(R \o C) = Len(R) + Len(C)
        /\ \A i \in 1 .. Len(R) + Len(C) :
             (R \o C)[i] = IF i <= Len(R) THEN R[i] ELSE C[i - Len(R)]
    BY <1>6, ConcatProperties
  <2>2. Len(R) = 1 + g /\ Len(C) = m
    BY <1>6
  <2> HIDE DEF g, m
  <2> QED
    BY <2>1, <2>2
<1>8. W[1] = RoleChunk
  <2>1. 1 \in 1 .. 1 + g /\ 1 \in 1 .. (1 + g) + m /\ 1 <= 1 + g
    <3> HIDE DEF g, m
    <3> QED
      BY <1>1
  <2> HIDE DEF g, m, W
  <2> QED
    BY <1>5, <1>6, <1>7, <2>1
<1>9. ASSUME NEW i \in 2 .. g + 1 PROVE W[i] = DeltaChunk(generated[r][i - 1])
  <2>1. /\ i \in 1 .. 1 + g /\ i \in 1 .. (1 + g) + m /\ i <= 1 + g /\ ~(i <= 1)
        /\ i - 1 \in 1 .. g
    <3> HIDE DEF g, m
    <3> QED
      BY <1>1
  <2> HIDE DEF g, m, W
  <2> QED
    BY <1>3, <1>6, <1>7, <2>1
<1>10. ASSUME NEW i \in 1 .. m PROVE W[g + 1 + i] = C[i]
  <2>1. /\ g + 1 + i \in 1 .. (1 + g) + m /\ ~(g + 1 + i <= 1 + g)
        /\ g + 1 + i - (1 + g) = i
    <3> HIDE DEF g, m
    <3> QED
      BY <1>1
  <2>2. PICK j : j = g + 1 + i
    OBVIOUS
  <2>3. j \in 1 .. (1 + g) + m /\ ~(j <= 1 + g) /\ j - (1 + g) = i
    BY <2>1, <2>2
  <2> HIDE DEF g, m, W
  <2>4. W[j] = C[j - (1 + g)]
    BY <1>7, <2>3
  <2> QED
    BY <2>2, <2>3, <2>4
<1> QED
  BY <1>7, <1>8, <1>9, <1>10 DEF R, D

(* A sequence that agrees with a longer one is a prefix of it.             *)
LEMMA PrefixByElements ==
  ASSUME NEW S, NEW s \in Seq(S), NEW w \in Seq(S), Len(s) <= Len(w),
         \A i \in 1 .. Len(s) : s[i] = w[i]
  PROVE  IsPrefix(s, w)
<1> DEFINE n == Len(s)
<1>1. n \in Nat /\ n <= Len(w)
  BY LenProperties
<1>2. \A i \in 1 .. n : s[i] \in S /\ w[i] \in S
  BY ElementOfSeq
<1> HIDE DEF n
<1>3. /\ SubSeq(s, 1, n) \in Seq(S) /\ SubSeq(w, 1, n) \in Seq(S)
      /\ Len(SubSeq(s, 1, n)) = n /\ Len(SubSeq(w, 1, n)) = n
      /\ \A i \in 1 .. n : SubSeq(s, 1, n)[i] = s[i] /\ SubSeq(w, 1, n)[i] = w[i]
  BY <1>1, <1>2, SubSeqProperties
<1>4. \A i \in 1 .. n : SubSeq(s, 1, n)[i] = SubSeq(w, 1, n)[i]
  BY <1>3 DEF n
<1>5. SubSeq(s, 1, n) = SubSeq(w, 1, n)
  BY <1>3, <1>4, SeqEqual
<1> QED
  BY <1>1, <1>5 DEF IsPrefix, n

(* What a client has of a stream agrees with the whole of it.              *)
LEMMA StreamedAgrees ==
  ASSUME ChatShape, NEW r \in Requests, Streamed(r)
  PROVE  LET C == IF task[r] = "ended" THEN Closing(r) ELSE << >>
             W == <<RoleChunk>> \o Deltas(r) \o C IN
         /\ C \in Seq(Event) /\ W \in Seq(Event)
         /\ Len(received[r]) <= Len(W)
         /\ Len(W) = 1 + Len(generated[r]) + Len(C)
         /\ \A i \in 1 .. Len(received[r]) : received[r][i] = W[i]
<1> DEFINE C == IF task[r] = "ended" THEN Closing(r) ELSE << >>
           W == <<RoleChunk>> \o Deltas(r) \o C
           n == Len(received[r])
           g == Len(generated[r])
           m == Len(C)
<1>1. C \in Seq(Event) /\ m \in Nat /\ n \in Nat /\ g \in Nat
  <2>1. Closing(r) \in Seq(Event) /\ n \in Nat /\ g \in Nat
    BY ShapeOf, ClosingForm
  <2>2. C \in Seq(Event)
    BY <2>1
  <2> QED
    BY <2>1, <2>2, LenProperties
<1>2. task[r] = "ended" => C = Closing(r)
  OBVIOUS
<1> HIDE DEF C
<1>3. /\ W \in Seq(Event) /\ Len(W) = 1 + g + m /\ W[1] = RoleChunk
      /\ \A i \in 2 .. g + 1 : W[i] = DeltaChunk(generated[r][i - 1])
      /\ \A i \in 1 .. m : W[g + 1 + i] = C[i]
  BY <1>1, WholeStream
<1> HIDE DEF W
<1>4. /\ n > 0 => received[r][1] = RoleChunk
      /\ \A i \in 2 .. n : i <= g + 1 => received[r][i] = DeltaChunk(generated[r][i - 1])
      /\ n > g + 1 => /\ n <= g + 1 + m
                      /\ \A i \in 2 .. n : i > g + 1 => received[r][i] = C[i - g - 1]
  BY <1>2 DEF Streamed
<1>5. n <= 1 + g + m
  <2>1. n > g + 1 => n <= g + 1 + m
    BY <1>4
  <2> HIDE DEF n, g, m
  <2> QED
    BY <1>1, <2>1
<1>6. ASSUME NEW i \in 1 .. n PROVE received[r][i] = W[i]
  <2>1. \/ i = 1 /\ n > 0
        \/ i \in 2 .. n /\ i <= g + 1 /\ i \in 2 .. g + 1
        \/ /\ i \in 2 .. n /\ i > g + 1 /\ n > g + 1
           /\ i - g - 1 \in 1 .. m /\ g + 1 + (i - g - 1) = i
    <3> HIDE DEF n, g, m
    <3> QED
      BY <1>1, <1>5, <1>6
  <2>2. CASE i = 1 /\ n > 0
    BY <1>3, <1>4, <2>2
  <2>3. CASE i \in 2 .. n /\ i <= g + 1 /\ i \in 2 .. g + 1
    BY <1>3, <1>4, <2>3
  <2>4. CASE /\ i \in 2 .. n /\ i > g + 1 /\ n > g + 1
             /\ i - g - 1 \in 1 .. m /\ g + 1 + (i - g - 1) = i
    <3>1. received[r][i] = C[i - g - 1]
      BY <1>4, <2>4
    <3>2. W[g + 1 + (i - g - 1)] = C[i - g - 1]
      BY <1>3, <2>4
    <3> QED
      BY <2>4, <3>1, <3>2
  <2> QED
    BY <2>1, <2>2, <2>3, <2>4
<1> QED
  BY <1>1, <1>3, <1>5, <1>6 DEF C, W

(* chat.rs:53-114: at every moment a stream is a prefix of the role, the   *)
(* pieces in order and, after the end, the closing events.                 *)
THEOREM StreamsArePrefixes == ChatSpec => []StreamIsPrefix
<1>1. ChatInv => StreamIsPrefix
  <2> SUFFICES ASSUME ChatInv, NEW r \in Requests, body[r].stream,
                      task[r] \notin {"none", "locking"}
               PROVE  \/ IsPrefix(received[r],
                           <<RoleChunk>> \o Deltas(r)
                             \o (IF task[r] = "ended" THEN Closing(r) ELSE << >>))
                      \/ received[r] = <<ErrorAnswer(500)>> /\ poisoned
    BY DEF StreamIsPrefix
  <2>1. ChatShape /\ Told(r) /\ received[r] \in Seq(Event)
    BY ShapeOf DEF ChatInv, OfRequest
  <2>2. CASE Streamed(r)
    BY <2>1, <2>2, StreamedAgrees, PrefixByElements
  <2>3. CASE ~Streamed(r)
    BY <2>1, <2>3 DEF Told
  <2> QED
    BY <2>2, <2>3
<1> QED
  BY <1>1, ChatInvariance, PTL

(* A client whose first event is the role has a part of a stream.          *)
LEMMA RoleMeansStream ==
  ASSUME NEW r \in Requests, Told(r), received[r] # << >>, received[r][1] = RoleChunk
  PROVE  Streamed(r)
<1>1. \A n \in Nat : ErrorAnswer(n) # RoleChunk
  BY DEF ErrorAnswer, RoleChunk
<1>2. Answer(generated[r], result[r]) # RoleChunk
  BY DEF Answer, RoleChunk
<1> QED
  BY <1>1, <1>2 DEF Told

(* chat.rs:108-113: [DONE] tells a client that stayed that the generation  *)
(* succeeded, and then it has every piece.                                 *)
THEOREM DoneMeansComplete == ChatSpec => []DoneIffComplete
<1>1. ChatInv => DoneIffComplete
  <2> SUFFICES ASSUME ChatInv, NEW r \in Requests, client[r] = "answered",
                      received[r] # << >>, received[r][1] = RoleChunk
               PROVE  /\ (Last(received[r]) = DoneMark) <=> (result[r].kind = "ok")
                      /\ result[r].kind = "ok" =>
                           received[r] = <<RoleChunk>> \o Deltas(r) \o Closing(r)
    BY DEF DoneIffComplete
  <2> DEFINE n == Len(received[r])
             g == Len(generated[r])
             m == Len(Closing(r))
             W == <<RoleChunk>> \o Deltas(r) \o Closing(r)
  <2>1. ChatShape /\ OfRequest(r) /\ received[r] \in Seq(Event) /\ g \in Nat /\ result[r] \in Result
    BY ShapeOf DEF ChatInv
  <2>2. Streamed(r)
    BY <2>1, RoleMeansStream DEF OfRequest
  <2>3. task[r] = "ended" /\ n = 1 + g + m
    BY <2>1, <2>2 DEF OfRequest, Awaiting
  <2>4. /\ Closing(r) \in Seq(Event) /\ m \in Nat
        /\ result[r].kind # "ok" => m = 0
        /\ result[r].kind = "ok" => m \in {2, 3} /\ Closing(r)[m] = DoneMark
    BY <2>1, ClosingForm
  <2>5. /\ W \in Seq(Event) /\ Len(W) = 1 + g + m
        /\ W[1] = RoleChunk
        /\ \A i \in 2 .. g + 1 : W[i] = DeltaChunk(generated[r][i - 1])
        /\ \A i \in 1 .. m : W[g + 1 + i] = Closing(r)[i]
    BY <2>1, <2>4, WholeStream
  <2>6. \A i \in 1 .. n : received[r][i] = W[i]
    BY <2>1, <2>2, <2>3, StreamedAgrees
  <2> HIDE DEF W
  <2>7. received[r] = W
    <3>1. Len(received[r]) = Len(W)
      BY <2>3, <2>5
    <3> QED
      BY <2>1, <2>5, <2>6, <3>1, SeqEqual
  <2>8. Last(received[r]) = W[1 + g + m]
    BY <2>3, <2>7 DEF Last
  <2>9. CASE result[r].kind = "ok"
    <3>1. m \in 1 .. m /\ 1 + g + m = g + 1 + m
      <4>1. m \in {2, 3}
        BY <2>4, <2>9
      <4> HIDE DEF g, m
      <4> QED
        BY <2>1, <4>1
    <3>2. W[g + 1 + m] = DoneMark
      BY <2>4, <2>5, <2>9, <3>1
    <3> QED
      BY <2>7, <2>8, <2>9, <3>1, <3>2 DEF W
  <2>10. CASE result[r].kind # "ok"
    <3>1. \/ 1 + g + m = 1
          \/ 1 + g + m \in 2 .. g + 1
      <4>1. m = 0
        BY <2>4, <2>10
      <4> HIDE DEF g, m
      <4> QED
        BY <2>1, <4>1
    <3>2. W[1 + g + m] = RoleChunk \/ \E t : W[1 + g + m] = DeltaChunk(t)
      BY <2>5, <3>1
    <3>3. /\ RoleChunk.type # DoneMark.type
          /\ \A t : DeltaChunk(t).type # DoneMark.type
      BY DEF RoleChunk, DeltaChunk, DoneMark
    <3>4. W[1 + g + m] # DoneMark
      BY <3>2, <3>3
    <3> QED
      BY <2>8, <2>10, <3>4
  <2> QED
    BY <2>9, <2>10
<1> QED
  BY <1>1, ChatInvariance, PTL

(* Where an event of a stream stands, by its type.                         *)
LEMMA StreamPositions ==
  ASSUME ChatShape, NEW r \in Requests, Streamed(r), NEW i \in DOMAIN received[r]
  PROVE  LET n == Len(received[r])
             g == Len(generated[r]) IN
         /\ n \in Nat /\ g \in Nat /\ i \in 1 .. n
         /\ i = 1 => received[r][i].type = "role"
         /\ i > 1 /\ i <= g + 1 => received[r][i].type = "delta"
         /\ i > g + 1 =>
              /\ n > g + 1
              /\ result[r].kind = "ok"
              /\ received[r][i] \in {FinishChunk(result[r]), UsageChunk(result[r]), DoneMark}
              /\ received[r][i].type \in {"finish", "usage", "[DONE]"}
<1> DEFINE n == Len(received[r])
           g == Len(generated[r])
           m == Len(Closing(r))
<1>1. n \in Nat /\ g \in Nat /\ m \in Nat /\ result[r] \in Result /\ i \in 1 .. n
  BY ShapeOf, ClosingForm, LenProperties
<1>2. i = 1 => received[r][i].type = "role"
  <2>1. n > 0
    <3> HIDE DEF n
    <3> QED
      BY <1>1
  <2>2. received[r][1] = RoleChunk
    BY <2>1 DEF Streamed
  <2> QED
    BY <2>2 DEF RoleChunk
<1>3. ASSUME i > 1, i <= g + 1 PROVE received[r][i].type = "delta"
  <2>1. i \in 2 .. n
    <3> HIDE DEF n, g
    <3> QED
      BY <1>1, <1>3
  <2>2. received[r][i] = DeltaChunk(generated[r][i - 1])
    BY <1>3, <2>1 DEF Streamed
  <2> QED
    BY <2>2 DEF DeltaChunk
<1>4. ASSUME i > g + 1
      PROVE  /\ n > g + 1 /\ result[r].kind = "ok"
             /\ received[r][i] \in {FinishChunk(result[r]), UsageChunk(result[r]), DoneMark}
             /\ received[r][i].type \in {"finish", "usage", "[DONE]"}
  <2>1. n > g + 1 /\ i \in 2 .. n
    <3> HIDE DEF n, g
    <3> QED
      BY <1>1, <1>4
  <2>2. n <= g + 1 + m /\ received[r][i] = Closing(r)[i - g - 1]
    BY <1>4, <2>1 DEF Streamed
  <2>3. i - g - 1 \in 1 .. m
    <3>1. n <= g + 1 + m
      BY <2>2
    <3> HIDE DEF n, g, m
    <3> QED
      BY <1>1, <1>4, <2>1, <3>1
  <2> QED
    BY <1>1, <2>1, <2>2, <2>3, ClosingTypes
<1> QED
  BY <1>1, <1>2, <1>3, <1>4

(* A client that has a closing event has as many pieces as were generated. *)
LEMMA AllPieces ==
  ASSUME ChatShape, NEW r \in Requests, Streamed(r),
         Len(received[r]) > Len(generated[r]) + 1
  PROVE  CountOf("delta", r) = Len(generated[r])
<1> DEFINE n == Len(received[r])
           g == Len(generated[r])
           S == {i \in DOMAIN received[r] : received[r][i].type = "delta"}
<1>1. n \in Nat /\ g \in Nat /\ DOMAIN received[r] = 1 .. n
  BY ShapeOf, LenProperties
<1>2. ASSUME NEW i \in 1 .. n
      PROVE  i \in 2 .. g + 1 <=> received[r][i].type = "delta"
  <2>1. \/ i = 1 /\ i \notin 2 .. g + 1
        \/ i > 1 /\ i <= g + 1 /\ i \in 2 .. g + 1
        \/ i > g + 1 /\ i \notin 2 .. g + 1
    <3> HIDE DEF n, g
    <3> QED
      BY <1>1, <1>2
  <2>2. /\ i = 1 => received[r][i].type = "role"
        /\ i > 1 /\ i <= g + 1 => received[r][i].type = "delta"
        /\ i > g + 1 => received[r][i].type \in {"finish", "usage", "[DONE]"}
    BY <1>1, StreamPositions
  <2> QED
    BY <2>1, <2>2
<1>3. 2 .. g + 1 \subseteq 1 .. n
  <2>1. n > g + 1
    OBVIOUS
  <2> HIDE DEF n, g
  <2> QED
    BY <1>1, <2>1
<1>4. S = 2 .. g + 1
  <2> HIDE DEF n, g
  <2> QED
    BY <1>1, <1>2, <1>3
<1>5. Cardinality(2 .. g + 1) = g
  <2> HIDE DEF g
  <2> QED
    BY <1>1, FS_Interval
<1> QED
  BY <1>4, <1>5 DEF CountOf

(* engine.rs:215-252: the usage is the number of pieces, plus the token a  *)
(* stop string swallowed, and within max_tokens.                           *)
THEOREM UsageIsExact == ChatSpec => []UsageMatchesPieces
<1>1. ChatInv => UsageMatchesPieces
  <2> DEFINE Counted(r, event, pieces) ==
               /\ event.type \in {"usage", "answer"} =>
                    /\ event.completion_tokens = pieces + Len(stopped[r])
                    /\ event.completion_tokens <= Params(r).max_tokens
               /\ event.type \in {"finish", "answer"} =>
                    (event.finish_reason = "length" <=> pieces = Params(r).max_tokens)
  <2> SUFFICES ASSUME ChatInv, NEW r \in Requests, NEW i \in DOMAIN received[r]
               PROVE  Counted(r, received[r][i],
                        IF received[r][i].type = "answer" THEN Len(received[r][i].tokens)
                        ELSE CountOf("delta", r))
    BY DEF UsageMatchesPieces
  <2> HIDE DEF Counted
  <2>1. ChatShape /\ OfRequest(r) /\ Told(r) /\ Budget(r)
    BY DEF ChatInv, OfRequest
  <2>2. ASSUME NEW event, event \in {FinishChunk(result[r]), UsageChunk(result[r]), DoneMark},
               result[r].kind = "ok"
        PROVE  Counted(r, event, Len(generated[r])) /\ event.type # "answer"
    <3>1. /\ result[r].completion_tokens = Len(generated[r]) + Len(stopped[r])
          /\ result[r].completion_tokens <= Params(r).max_tokens
          /\ result[r].finish_reason = "length" <=> Len(generated[r]) = Params(r).max_tokens
      BY <2>1, <2>2 DEF Budget
    <3>2. CASE event = FinishChunk(result[r])
      <4>1. event.type = "finish" /\ event.finish_reason = result[r].finish_reason
        BY <3>2 DEF FinishChunk
      <4> QED
        BY <3>1, <4>1 DEF Counted
    <3>3. CASE event = UsageChunk(result[r])
      <4>1. event.type = "usage" /\ event.completion_tokens = result[r].completion_tokens
        BY <3>3 DEF UsageChunk
      <4> QED
        BY <3>1, <4>1 DEF Counted
    <3>4. CASE event = DoneMark
      <4>1. event.type = "[DONE]"
        BY <3>4 DEF DoneMark
      <4> QED
        BY <4>1 DEF Counted
    <3> QED
      BY <2>2, <3>2, <3>3, <3>4
  <2>3. CASE Streamed(r)
    <3>1. CASE i > Len(generated[r]) + 1
      <4>1. /\ Len(received[r]) > Len(generated[r]) + 1
            /\ result[r].kind = "ok"
            /\ received[r][i] \in {FinishChunk(result[r]), UsageChunk(result[r]), DoneMark}
        BY <2>1, <2>3, <3>1, StreamPositions
      <4>2. CountOf("delta", r) = Len(generated[r])
        BY <2>1, <2>3, <4>1, AllPieces
      <4> QED
        BY <2>2, <4>1, <4>2
    <3>2. CASE ~(i > Len(generated[r]) + 1)
      <4>1. received[r][i].type \in {"role", "delta"}
        <5> DEFINE g == Len(generated[r])
                   n == Len(received[r])
        <5>1. /\ n \in Nat /\ g \in Nat /\ i \in 1 .. n
              /\ i = 1 => received[r][i].type = "role"
              /\ i > 1 /\ i <= g + 1 => received[r][i].type = "delta"
          BY <2>1, <2>3, StreamPositions
        <5>2. i = 1 \/ (i > 1 /\ i <= g + 1)
          <6>1. ~(i > g + 1)
            BY <3>2
          <6> HIDE DEF g, n
          <6> QED
            BY <5>1, <6>1
        <5> QED
          BY <5>1, <5>2
      <4> QED
        BY <4>1 DEF Counted
    <3> QED
      BY <3>1, <3>2
  <2>4. CASE \E status \in {400, 500} : received[r] = <<ErrorAnswer(status)>>
    <3>1. i = 1 /\ received[r][1].type = "error"
      BY <2>4 DEF ErrorAnswer
    <3> QED
      BY <3>1 DEF Counted
  <2>5. CASE received[r] = <<Answer(generated[r], result[r])>> /\ result[r].kind = "ok"
    <3>1. i = 1 /\ received[r][1] = Answer(generated[r], result[r])
      BY <2>5
    <3>2. /\ result[r].completion_tokens = Len(generated[r]) + Len(stopped[r])
          /\ result[r].completion_tokens <= Params(r).max_tokens
          /\ result[r].finish_reason = "length" <=> Len(generated[r]) = Params(r).max_tokens
      BY <2>1, <2>5 DEF Budget
    <3>3. /\ Answer(generated[r], result[r]).type = "answer"
          /\ Answer(generated[r], result[r]).tokens = generated[r]
          /\ Answer(generated[r], result[r]).completion_tokens = result[r].completion_tokens
          /\ Answer(generated[r], result[r]).finish_reason = result[r].finish_reason
      BY DEF Answer
    <3> QED
      BY <3>1, <3>2, <3>3 DEF Counted
  <2> QED
    BY <2>1, <2>3, <2>4, <2>5 DEF Told
<1> QED
  BY <1>1, ChatInvariance, PTL

(* sampling.rs:58-77 where engine.rs:203-210 calls it: whatever the network*)
(* says, the token just sampled is one that the options allow.             *)
THEOREM SampledIsAllowed ==
  ASSUME NaturalWeights
  PROVE  ChatSpec => []SampledWithinOptions
<1>1. ChatInv => SampledWithinOptions
  <2> SUFFICES ASSUME ChatInv, next # NotYet
               PROVE  IF Forced(next.logits, Params(engine))
                      THEN next.token = ArgMax(next.logits)
                      ELSE InNucleus(next.logits, Params(engine), next.token)
                           \/ next.token \in {0, VocabSize - 1}
    BY DEF SampledWithinOptions
  <2>1. PICK r \in Requests :
          task[r] = "deliver" /\ next.token \in Samples(next.logits, Params(r))
    BY DEF ChatInv, Drawn
  <2>2. ChatShape /\ OfRequest(r) /\ engine = r
    BY <2>1 DEF ChatInv, OfRequest, Mutex, Holding
  <2>3. next.logits \in Logits
    BY <2>2 DEF ChatShape, Sampled
  <2>4. Params(r) \in Options
    BY <2>1, <2>2, BeforeTheEnd, ParamsAreOptions
  <2> QED
    BY <2>1, <2>2, <2>3, <2>4, SampleIsAllowed
<1> QED
  BY <1>1, ChatInvariance, PTL
=============================================================================
