---------------------------- MODULE FoldTheorems -----------------------------
(***************************************************************************)
(* Folds.  Sums over finite sets, for the ledgers of the Master and of the *)
(* worker stores: SumFunctionOnSet(f, S) of the community module Functions,*)
(* a fold that takes the elements of S in an unspecified order.  And folds *)
(* over a sequence (FoldLeft), for the loops of the KV cache.              *)
(*                                                                         *)
(* The induction theorems of the library take the predicate as an operator *)
(* and cannot be instantiated by the provers.  Here induction is over a    *)
(* set (LeastNatural, NatSetInduction, SmallestSubset), from the           *)
(* well-foundedness of < on Nat and of strict inclusion on finite sets.    *)
(***************************************************************************)
EXTENDS Integers, Functions, FiniteSetsExt, FiniteSetTheorems, WellFoundedInduction, TLAPS

(* A nonempty set of naturals has a least element.                         *)
LEMMA LeastNatural ==
  ASSUME NEW T, T \subseteq Nat, T # {}
  PROVE  \E x \in T : \A y \in T : x <= y
<1> DEFINE R == {ss \in Nat \X Nat : ss[1] < ss[2]}
<1>1. IsWellFoundedOn(R, Nat)
  BY NatLessThanWellFounded, Zenon DEF OpToRel
<1> HIDE DEF R
<1>2. PICK x \in T : \A y \in T : ~ (<<y, x>> \in R)
  BY <1>1, WFMin, Zenon
<1>3. \A y \in T : ~ (y < x)
  BY <1>2 DEF R
<1> QED
  BY <1>3

(* A set with 0 and the successor of each natural in it holds every        *)
(* natural.                                                                *)
LEMMA NatSetInduction ==
  ASSUME NEW T, 0 \in T, \A n \in Nat : n \in T => n + 1 \in T
  PROVE  Nat \subseteq T
<1> DEFINE M == Nat \ T
<1> SUFFICES ASSUME M # {} PROVE FALSE
  OBVIOUS
<1>1. PICK x \in M : \A y \in M : x <= y
  BY LeastNatural, Zenon
<1>2. x # 0 /\ x \in Nat
  OBVIOUS
<1>3. x - 1 \in Nat /\ x - 1 \notin M
  BY <1>1, <1>2
<1> QED
  BY <1>2, <1>3

(* A nonempty family of subsets of a finite set has a minimal member.      *)
LEMMA SmallestSubset ==
  ASSUME NEW S, IsFiniteSet(S), NEW F, F \subseteq SUBSET S, F # {}
  PROVE  \E T \in F : \A U \in F : U \subseteq T => U = T
<1>1. F \subseteq FiniteSubsetsOf(S)
  BY FS_FiniteSubsetsOfFinite, Zenon
<1>2. PICK T \in F : \A U \in F : ~ (<<U, T>> \in StrictSubsetOrdering(S))
  BY <1>1, WFMin, FS_StrictSubsetOrderingWellFounded, Zenon
<1> QED
  BY <1>2 DEF StrictSubsetOrdering

-----------------------------------------------------------------------------
(* The element the fold takes next, and one step of its recursion.         *)
Chosen(s) == CHOOSE x \in s : TRUE

SumStep(f, g, s) == IF s = {} THEN 0 ELSE f[Chosen(s)] + g[s \ {Chosen(s)}]

IsSum(f, g, S) == g = [s \in SUBSET S |-> SumStep(f, g, s)]

(* The fold of SumFunctionOnSet, spelled out.                              *)
LEMMA SumUnfold ==
  ASSUME NEW f, NEW S
  PROVE  SumFunctionOnSet(f, S) = (CHOOSE g : IsSum(f, g, S))[S]
BY DEF SumFunctionOnSet, FoldFunctionOnSet, MapThenFoldSet, IsSum, SumStep, Chosen

(* The recursion that defines a sum has a solution: built up by            *)
(* cardinality.                                                            *)
LEMMA SumExists ==
  ASSUME NEW f, NEW S, IsFiniteSet(S)
  PROVE  \E g : IsSum(f, g, S)
<1> DEFINE Small(n) == {s \in SUBSET S : Cardinality(s) <= n}
           Sums(n, g) == g = [s \in Small(n) |-> SumStep(f, g, s)]
           T == {n \in Nat : \E g : Sums(n, g)}
<1>1. \A s \in SUBSET S : IsFiniteSet(s) /\ Cardinality(s) \in Nat
  BY FS_Subset, FS_CardinalityType, Zenon
<1>2. \A s \in SUBSET S : s # {} =>
        /\ Chosen(s) \in s
        /\ s \ {Chosen(s)} \in SUBSET S
        /\ Cardinality(s \ {Chosen(s)}) = Cardinality(s) - 1
  <2> SUFFICES ASSUME NEW s \in SUBSET S, s # {}
               PROVE  /\ Chosen(s) \in s
                      /\ s \ {Chosen(s)} \in SUBSET S
                      /\ Cardinality(s \ {Chosen(s)}) = Cardinality(s) - 1
    OBVIOUS
  <2>1. Chosen(s) \in s
    BY DEF Chosen
  <2>2. Cardinality(s \ {Chosen(s)}) = Cardinality(s) - 1
    BY <1>1, <2>1, FS_RemoveElement, Zenon
  <2> QED
    BY <2>1, <2>2
<1>3. 0 \in T
  <2> DEFINE g == [s \in Small(0) |-> 0]
  <2>1. ASSUME NEW s \in Small(0) PROVE s = {}
    <3>1. IsFiniteSet(s) /\ Cardinality(s) = 0
      BY <1>1
    <3> QED
      BY <3>1, FS_EmptySet, Zenon
  <2>2. \A s \in Small(0) : SumStep(f, g, s) = 0
    BY <2>1 DEF SumStep
  <2>3. Sums(0, g)
    BY <2>2
  <2> QED
    BY <2>3
<1>4. ASSUME NEW n \in Nat, n \in T PROVE n + 1 \in T
  <2>1. PICK g : Sums(n, g)
    BY <1>4
  <2> DEFINE h == [s \in Small(n + 1) |-> SumStep(f, g, s)]
  <2>2. ASSUME NEW s \in Small(n + 1)
        PROVE  SumStep(f, h, s) = SumStep(f, g, s)
    <3>1. CASE s = {}
      BY <3>1 DEF SumStep
    <3>2. CASE s # {}
      <4> DEFINE r == s \ {Chosen(s)}
      <4>1. r \in Small(n) /\ r \in Small(n + 1)
        BY <1>1, <1>2, <3>2
      <4>2. h[r] = SumStep(f, g, r)
        BY <4>1
      <4>3. g[r] = SumStep(f, g, r)
        BY <2>1, <4>1
      <4> QED
        BY <3>2, <4>2, <4>3 DEF SumStep
    <3> QED
      BY <3>1, <3>2
  <2>3. Sums(n + 1, h)
    BY <2>2
  <2> HIDE DEF Sums, h
  <2> QED
    BY <2>3
<1>5. Cardinality(S) \in T
  <2> HIDE DEF T
  <2> QED
    BY <1>1, <1>3, <1>4, NatSetInduction
<1>6. Small(Cardinality(S)) = SUBSET S
  BY <1>1, FS_Subset
<1> QED
  BY <1>5, <1>6 DEF IsSum

(* Solutions over nested sets agree where both are defined.                *)
LEMMA SumUnique ==
  ASSUME NEW f, NEW S, IsFiniteSet(S), NEW g, IsSum(f, g, S),
         NEW R \in SUBSET S, NEW h, IsSum(f, h, R)
  PROVE  h[R] = g[R]
<1> DEFINE F == {s \in SUBSET R : h[s] # g[s]}
<1> SUFFICES ASSUME F # {} PROVE FALSE
  OBVIOUS
<1>1. IsFiniteSet(R)
  BY FS_Subset
<1>2. PICK s \in F : \A t \in F : t \subseteq s => t = s
  <2>1. F \subseteq SUBSET R
    OBVIOUS
  <2> HIDE DEF F
  <2> QED
    BY <1>1, <2>1, SmallestSubset
<1>3. h[s] = SumStep(f, h, s) /\ g[s] = SumStep(f, g, s)
  BY DEF IsSum
<1>4. CASE s = {}
  BY <1>3, <1>4 DEF SumStep
<1>5. CASE s # {}
  <2>1. Chosen(s) \in s
    BY <1>5 DEF Chosen
  <2>2. h[s \ {Chosen(s)}] = g[s \ {Chosen(s)}]
    BY <1>2, <2>1
  <2> QED
    BY <1>3, <1>5, <2>2 DEF SumStep
<1> QED
  BY <1>4, <1>5

(* Hence a sum is the chosen element plus the sum of the rest.             *)
LEMMA SumRecursion ==
  ASSUME NEW f, NEW S, IsFiniteSet(S)
  PROVE  /\ S = {} => SumFunctionOnSet(f, S) = 0
         /\ S # {} => /\ Chosen(S) \in S
                      /\ SumFunctionOnSet(f, S) =
                           f[Chosen(S)] + SumFunctionOnSet(f, S \ {Chosen(S)})
<1> DEFINE g == CHOOSE g : IsSum(f, g, S)
           R == S \ {Chosen(S)}
           h == CHOOSE h : IsSum(f, h, R)
<1>1. IsFiniteSet(R)
  BY FS_Subset
<1>2. IsSum(f, g, S) /\ IsSum(f, h, R)
  BY <1>1, SumExists
<1>3. h[R] = g[R]
  BY <1>2, SumUnique
<1>4. SumFunctionOnSet(f, S) = g[S] /\ SumFunctionOnSet(f, R) = h[R]
  BY SumUnfold
<1>5. g[S] = SumStep(f, g, S)
  BY <1>2 DEF IsSum
<1>6. S # {} => Chosen(S) \in S
  BY DEF Chosen
<1> HIDE DEF g, h
<1> QED
  BY <1>3, <1>4, <1>5, <1>6 DEF SumStep

-----------------------------------------------------------------------------
(* Numbers that are natural have a natural sum.                            *)
THEOREM SumIsNatural ==
  ASSUME NEW f, NEW S, IsFiniteSet(S), \A x \in S : f[x] \in Nat
  PROVE  SumFunctionOnSet(f, S) \in Nat
<1> DEFINE F == {T \in SUBSET S : SumFunctionOnSet(f, T) \notin Nat}
<1> SUFFICES ASSUME F # {} PROVE FALSE
  OBVIOUS
<1>1. PICK T \in F : \A U \in F : U \subseteq T => U = T
  <2>1. F \subseteq SUBSET S
    OBVIOUS
  <2> HIDE DEF F
  <2> QED
    BY <2>1, SmallestSubset
<1>2. IsFiniteSet(T)
  BY FS_Subset
<1>3. T # {} /\ Chosen(T) \in T
  <2>1. SumFunctionOnSet(f, T) # 0
    OBVIOUS
  <2> QED
    BY <1>2, <2>1, SumRecursion
<1>4. SumFunctionOnSet(f, T \ {Chosen(T)}) \in Nat
  BY <1>1, <1>3
<1>5. SumFunctionOnSet(f, T) = f[Chosen(T)] + SumFunctionOnSet(f, T \ {Chosen(T)})
  BY <1>2, <1>3, SumRecursion
<1> QED
  BY <1>3, <1>4, <1>5

(* Any element may be taken out of a sum.                                  *)
THEOREM SumTakeOut ==
  ASSUME NEW f, NEW S, IsFiniteSet(S), \A x \in S : f[x] \in Nat, NEW x \in S
  PROVE  SumFunctionOnSet(f, S) = f[x] + SumFunctionOnSet(f, S \ {x})
<1> DEFINE Sum(T) == SumFunctionOnSet(f, T)
           F == {T \in SUBSET S : \E y \in T : Sum(T) # f[y] + Sum(T \ {y})}
<1> SUFFICES ASSUME F # {} PROVE FALSE
  OBVIOUS
<1>1. PICK T \in F : \A U \in F : U \subseteq T => U = T
  <2>1. F \subseteq SUBSET S
    OBVIOUS
  <2> HIDE DEF F
  <2> QED
    BY <2>1, SmallestSubset
<1>2. PICK y \in T : Sum(T) # f[y] + Sum(T \ {y})
  OBVIOUS
<1>3. IsFiniteSet(T)
  BY FS_Subset
<1> DEFINE p == Chosen(T)
<1>4. p \in T /\ Sum(T) = f[p] + Sum(T \ {p})
  BY <1>3, SumRecursion
<1>5. \A U \in SUBSET T : IsFiniteSet(U) /\ Sum(U) \in Nat
  BY <1>3, FS_Subset, SumIsNatural
<1>6. p # y
  BY <1>2, <1>4
<1>7. Sum(T \ {p}) = f[y] + Sum(T \ {p, y})
  <2>1. (T \ {p}) \ {y} = T \ {p, y}
    OBVIOUS
  <2> QED
    BY <1>1, <1>4, <1>6, <2>1
<1>8. Sum(T \ {y}) = f[p] + Sum(T \ {p, y})
  <2>1. (T \ {y}) \ {p} = T \ {p, y}
    OBVIOUS
  <2> QED
    BY <1>1, <1>2, <1>4, <1>6, <2>1
<1> HIDE DEF p, Sum
<1>9. f[p] \in Nat /\ f[y] \in Nat /\ Sum(T \ {p, y}) \in Nat
  BY <1>4, <1>5
<1> QED
  BY <1>2, <1>4, <1>7, <1>8, <1>9

(* A sum depends on the values of its elements only.                       *)
THEOREM SumOfEquals ==
  ASSUME NEW f, NEW g, NEW S, IsFiniteSet(S), \A x \in S : f[x] = g[x]
  PROVE  SumFunctionOnSet(f, S) = SumFunctionOnSet(g, S)
<1> DEFINE F == {T \in SUBSET S : SumFunctionOnSet(f, T) # SumFunctionOnSet(g, T)}
<1> SUFFICES ASSUME F # {} PROVE FALSE
  OBVIOUS
<1>1. PICK T \in F : \A U \in F : U \subseteq T => U = T
  <2>1. F \subseteq SUBSET S
    OBVIOUS
  <2> HIDE DEF F
  <2> QED
    BY <2>1, SmallestSubset
<1>2. IsFiniteSet(T)
  BY FS_Subset
<1>3. T # {} /\ Chosen(T) \in T
  BY <1>2, SumRecursion
<1>4. SumFunctionOnSet(f, T \ {Chosen(T)}) = SumFunctionOnSet(g, T \ {Chosen(T)})
  BY <1>1, <1>3
<1> QED
  BY <1>2, <1>3, <1>4, SumRecursion

(* A sum with one element set apart, whether it belongs to it or not.      *)
THEOREM SumApart ==
  ASSUME NEW f, NEW S, IsFiniteSet(S), \A y \in S : f[y] \in Nat, NEW x
  PROVE  /\ SumFunctionOnSet(f, S \ {x}) \in Nat
         /\ x \in S => SumFunctionOnSet(f, S) = SumFunctionOnSet(f, S \ {x}) + f[x]
         /\ x \notin S => SumFunctionOnSet(f, S) = SumFunctionOnSet(f, S \ {x})
<1>1. IsFiniteSet(S \ {x})
  BY FS_Subset
<1>2. SumFunctionOnSet(f, S \ {x}) \in Nat
  BY <1>1, SumIsNatural
<1>3. CASE x \in S
  BY <1>2, <1>3, SumTakeOut
<1>4. CASE x \notin S
  <2>1. S \ {x} = S
    BY <1>4
  <2> QED
    BY <1>2, <1>4, <2>1
<1> QED
  BY <1>2, <1>3, <1>4

(* Changing the value of one element changes the sum by the difference.    *)
THEOREM SumOneChanged ==
  ASSUME NEW f, NEW g, NEW S, IsFiniteSet(S), NEW x \in S,
         \A y \in S : f[y] \in Nat /\ g[y] \in Nat,
         \A y \in S \ {x} : f[y] = g[y]
  PROVE  SumFunctionOnSet(g, S) = SumFunctionOnSet(f, S) - f[x] + g[x]
<1> DEFINE R == S \ {x}
<1>1. IsFiniteSet(R)
  BY FS_Subset
<1>2. SumFunctionOnSet(f, R) = SumFunctionOnSet(g, R) /\ SumFunctionOnSet(f, R) \in Nat
  BY <1>1, SumOfEquals, SumIsNatural
<1>3. /\ SumFunctionOnSet(f, S) = f[x] + SumFunctionOnSet(f, R)
      /\ SumFunctionOnSet(g, S) = g[x] + SumFunctionOnSet(g, R)
  BY SumTakeOut
<1> HIDE DEF R
<1> QED
  BY <1>2, <1>3

(* No element is larger than the sum it is part of.                        *)
THEOREM SumAtLeast ==
  ASSUME NEW f, NEW S, IsFiniteSet(S), \A y \in S : f[y] \in Nat, NEW x \in S
  PROVE  f[x] <= SumFunctionOnSet(f, S)
<1>1. IsFiniteSet(S \ {x})
  BY FS_Subset
<1>2. SumFunctionOnSet(f, S \ {x}) \in Nat
  BY <1>1, SumIsNatural
<1>3. SumFunctionOnSet(f, S) = f[x] + SumFunctionOnSet(f, S \ {x})
  BY SumTakeOut
<1> QED
  BY <1>2, <1>3

(* A sum of zeros is zero.                                                 *)
THEOREM SumOfZeros ==
  ASSUME NEW f, NEW S, IsFiniteSet(S), \A x \in S : f[x] = 0
  PROVE  SumFunctionOnSet(f, S) = 0
<1> DEFINE F == {T \in SUBSET S : SumFunctionOnSet(f, T) # 0}
<1> SUFFICES ASSUME F # {} PROVE FALSE
  OBVIOUS
<1>1. PICK T \in F : \A U \in F : U \subseteq T => U = T
  <2>1. F \subseteq SUBSET S
    OBVIOUS
  <2> HIDE DEF F
  <2> QED
    BY <2>1, SmallestSubset
<1>2. IsFiniteSet(T)
  BY FS_Subset
<1>3. T # {} /\ Chosen(T) \in T
  BY <1>2, SumRecursion
<1>4. SumFunctionOnSet(f, T \ {Chosen(T)}) = 0
  BY <1>1, <1>3
<1> QED
  BY <1>2, <1>3, <1>4, SumRecursion

(* A part of a set, with smaller numbers, has a smaller sum.               *)
THEOREM SumOfPart ==
  ASSUME NEW f, NEW g, NEW S, IsFiniteSet(S), NEW A, A \subseteq S,
         \A x \in S : g[x] \in Nat,
         \A x \in A : f[x] \in Nat /\ f[x] <= g[x]
  PROVE  SumFunctionOnSet(f, A) <= SumFunctionOnSet(g, S)
<1> DEFINE Less(T) == SumFunctionOnSet(f, A \cap T) <= SumFunctionOnSet(g, T)
           F == {T \in SUBSET S : ~Less(T)}
<1>1. SUFFICES ASSUME F # {} PROVE FALSE
  <2>1. A \cap S = A /\ S \in SUBSET S
    OBVIOUS
  <2> QED
    BY <2>1
<1>2. PICK T \in F : \A U \in F : U \subseteq T => U = T
  <2>1. F \subseteq SUBSET S
    OBVIOUS
  <2> HIDE DEF F
  <2> QED
    BY <1>1, <2>1, SmallestSubset
<1>3. IsFiniteSet(T) /\ IsFiniteSet(A \cap T) /\ T \subseteq S /\ ~Less(T)
  BY FS_Subset
<1>4. T # {}
  <2>1. A \cap {} = {}
    OBVIOUS
  <2>2. SumFunctionOnSet(f, {}) = 0 /\ SumFunctionOnSet(g, {}) = 0
    BY FS_EmptySet, SumRecursion
  <2> QED
    BY <1>3, <2>1, <2>2
<1>5. PICK c \in T : TRUE
  BY <1>4
<1> DEFINE R == T \ {c}
<1>6. R \in SUBSET S /\ R \subseteq T /\ R # T
  BY <1>3, <1>5
<1>7. Less(R)
  BY <1>2, <1>6
<1>8. IsFiniteSet(R) /\ IsFiniteSet(A \cap R)
  BY <1>3, FS_Subset
<1>9. SumFunctionOnSet(g, T) = g[c] + SumFunctionOnSet(g, R)
  BY <1>3, <1>5, SumTakeOut
<1>10. SumFunctionOnSet(g, R) \in Nat /\ SumFunctionOnSet(f, A \cap R) \in Nat /\ g[c] \in Nat
  BY <1>3, <1>5, <1>6, <1>8, SumIsNatural
<1>11. CASE c \in A
  <2>1. (A \cap T) \ {c} = A \cap R /\ c \in A \cap T
    BY <1>5, <1>11
  <2>2. SumFunctionOnSet(f, A \cap T) = f[c] + SumFunctionOnSet(f, A \cap R)
    BY <1>3, <2>1, SumTakeOut
  <2> QED
    BY <1>3, <1>7, <1>9, <1>10, <1>11, <2>2
<1>12. CASE c \notin A
  <2>1. A \cap T = A \cap R
    BY <1>12
  <2>2. SumFunctionOnSet(f, A \cap T) = SumFunctionOnSet(f, A \cap R)
    BY <2>1
  <2> HIDE DEF R
  <2> QED
    BY <1>3, <1>7, <1>9, <1>10, <2>2
<1> QED
  BY <1>11, <1>12

(* A nonempty finite set of integers has a largest element.                *)
THEOREM LargestExists ==
  ASSUME NEW S, IsFiniteSet(S), S \subseteq Int, S # {}
  PROVE  \E m \in S : \A x \in S : m >= x
<1> DEFINE F == {T \in SUBSET S : T # {} /\ \A m \in T : \E x \in T : ~(m >= x)}
<1>1. SUFFICES ASSUME F # {} PROVE FALSE
  OBVIOUS
<1>2. F \subseteq SUBSET S
  OBVIOUS
<1>3. \E T \in F : \A U \in F : U \subseteq T => U = T
  <2> HIDE DEF F
  <2> QED
    BY ONLY IsFiniteSet(S), F # {}, <1>2, SmallestSubset
<1>4. PICK T \in F : \A U \in F : U \subseteq T => U = T
  BY <1>3, Zenon
<1>5. T \subseteq S /\ T # {} /\ \A m \in T : \E x \in T : ~(m >= x)
  BY <1>4
<1>6. PICK c \in T : TRUE
  BY <1>5
<1> DEFINE R == T \ {c}
<1>7. R \subseteq T /\ R # T /\ R \in SUBSET S
  BY <1>5, <1>6
<1>8. R \notin F
  BY <1>4, <1>7, Zenon
<1>9. CASE R = {}
  BY <1>5, <1>6, <1>9
<1>10. CASE \E m \in R : \A x \in R : m >= x
  <2>1. PICK m \in R : \A x \in R : m >= x
    BY <1>10
  <2>2. m >= c \/ c >= m
    BY <1>5, <1>6, <2>1
  <2> QED
    BY <1>5, <1>6, <2>1, <2>2
<1> QED
  BY <1>7, <1>8, <1>9, <1>10
-----------------------------------------------------------------------------
(* Folds along a sequence of length n: FoldLeft of the community module    *)
(* SequencesExt takes the largest index last.                              *)
LEMMA MaxOfInterval ==
  ASSUME NEW k \in Nat \ {0}
  PROVE  Max(1 .. k) = k /\ (1 .. k) \ {k} = 1 .. (k - 1)
<1>1. \A x \in 1 .. k : (\A y \in 1 .. k : x >= y) <=> x = k
  OBVIOUS
<1>2. k \in 1 .. k
  OBVIOUS
<1>3. Max(1 .. k) = k
  BY <1>1, <1>2 DEF Max
<1> QED
  BY <1>3

LEMMA MaxIsMember ==
  ASSUME NEW n \in Nat, NEW S \in SUBSET (1 .. n), S # {}
  PROVE  Max(S) \in S
<1>1. IsFiniteSet(1 .. n)
  BY FS_Interval
<1>2. IsFiniteSet(S)
  BY <1>1, FS_Subset
<1>3. S \subseteq Int
  OBVIOUS
<1>4. \E m \in S : \A x \in S : m >= x
  BY <1>2, <1>3, LargestExists
<1> QED
  BY <1>4 DEF Max

(* tr is what a function h on sets of indexes gives along 1 .. n.          *)
IsTrace(tr, h, n) ==
  /\ tr[0] = h[{}]
  /\ tr[n] = h[1 .. n]
  /\ \A i \in 1 .. n :
       /\ Max(1 .. i) = i
       /\ 1 .. i \in SUBSET (1 .. n) /\ 1 .. i # {}
       /\ tr[i] = h[1 .. i]
       /\ tr[i - 1] = h[(1 .. i) \ {i}]

LEMMA TraceExists ==
  ASSUME NEW n \in Nat, NEW h
  PROVE  \E tr : IsTrace(tr, h, n)
<1> DEFINE tr == [k \in 0 .. n |-> h[1 .. k]]
<1>1. tr[0] = h[{}] /\ tr[n] = h[1 .. n]
  OBVIOUS
<1>2. ASSUME NEW i \in 1 .. n
      PROVE  /\ Max(1 .. i) = i
             /\ 1 .. i \in SUBSET (1 .. n) /\ 1 .. i # {}
             /\ tr[i] = h[1 .. i]
             /\ tr[i - 1] = h[(1 .. i) \ {i}]
  <2>1. i \in Nat \ {0}
    OBVIOUS
  <2>2. Max(1 .. i) = i /\ (1 .. i) \ {i} = 1 .. (i - 1)
    BY <2>1, MaxOfInterval
  <2>3. tr[i] = h[1 .. i] /\ tr[i - 1] = h[1 .. (i - 1)]
    OBVIOUS
  <2>4. 1 .. i \in SUBSET (1 .. n) /\ 1 \in 1 .. i
    OBVIOUS
  <2> QED
    BY <2>2, <2>3, <2>4
<1> HIDE DEF tr
<1> QED
  BY <1>1, <1>2 DEF IsTrace

(* The function FoldLeft is defined by exists when op stays within a set   *)
(* V.  op takes what was folded so far and the index that is next.         *)
IsFold(g, op, base, V, n) ==
  /\ g \in [SUBSET (1 .. n) -> V]
  /\ \A s \in SUBSET (1 .. n) :
       g[s] = IF s = {} THEN base ELSE op[<<g[s \ {Max(s)}], Max(s)>>]

THEOREM FoldExists ==
  ASSUME NEW V, NEW n \in Nat, NEW op \in [V \X (1 .. n) -> V], NEW base \in V
  PROVE  \E g : IsFold(g, op, base, V, n)
<1> DEFINE D == 1 .. n
           Small(k) == {s \in SUBSET D : Cardinality(s) <= k}
           Folds(k, g) == \A s \in Small(k) :
             g[s] = IF s = {} THEN base ELSE op[<<g[s \ {Max(s)}], Max(s)>>]
           T == {k \in Nat : \E g \in [Small(k) -> V] : Folds(k, g)}
<1>1. \A s \in SUBSET D : IsFiniteSet(s) /\ Cardinality(s) \in Nat
  <2>1. IsFiniteSet(D)
    BY FS_Interval
  <2> QED
    BY <2>1, FS_Subset, FS_CardinalityType
<1>2. \A s \in SUBSET D : s # {} =>
        /\ Max(s) \in s
        /\ s \ {Max(s)} \in SUBSET D
        /\ Cardinality(s \ {Max(s)}) = Cardinality(s) - 1
  <2> SUFFICES ASSUME NEW s \in SUBSET D, s # {}
               PROVE  /\ Max(s) \in s
                      /\ s \ {Max(s)} \in SUBSET D
                      /\ Cardinality(s \ {Max(s)}) = Cardinality(s) - 1
    OBVIOUS
  <2>1. Max(s) \in s
    BY MaxIsMember
  <2>2. Cardinality(s \ {Max(s)}) = Cardinality(s) - 1
    BY <1>1, <2>1, FS_RemoveElement, Zenon
  <2> QED
    BY <2>1, <2>2
<1> HIDE DEF D
<1>3. 0 \in T
  <2> DEFINE g == [s \in Small(0) |-> base]
  <2>1. ASSUME NEW s \in Small(0) PROVE s = {}
    <3>1. IsFiniteSet(s) /\ Cardinality(s) = 0
      BY <1>1
    <3> QED
      BY <3>1, FS_EmptySet, Zenon
  <2>2. Folds(0, g) /\ g \in [Small(0) -> V]
    BY <2>1
  <2> QED
    BY <2>2
<1>4. ASSUME NEW k \in Nat, k \in T PROVE k + 1 \in T
  <2>1. PICK g \in [Small(k) -> V] : Folds(k, g)
    BY <1>4
  <2> DEFINE h == [s \in Small(k + 1) |->
                     IF s = {} THEN base ELSE op[<<g[s \ {Max(s)}], Max(s)>>]]
  <2>2. \A s \in Small(k + 1) : s # {} =>
          /\ s \ {Max(s)} \in Small(k) /\ s \ {Max(s)} \in Small(k + 1)
          /\ Max(s) \in D
    BY <1>1, <1>2
  <2>3. h \in [Small(k + 1) -> V]
    <3>1. \A s \in Small(k + 1) : s # {} =>
            <<g[s \ {Max(s)}], Max(s)>> \in V \X D
      BY <2>2
    <3>2. \A s \in Small(k + 1) : s # {} => op[<<g[s \ {Max(s)}], Max(s)>>] \in V
      BY <3>1 DEF D
    <3> QED
      BY <3>2
  <2>4. \A s \in Small(k) : s \in Small(k + 1) /\ h[s] = g[s]
    BY <1>1, <2>1
  <2>5. Folds(k + 1, h)
    BY <2>2, <2>4
  <2>6. \E x \in [Small(k + 1) -> V] : Folds(k + 1, x)
    <3> HIDE DEF Folds, h, Small
    <3> QED
      BY <2>3, <2>5
  <2>7. k + 1 \in Nat
    OBVIOUS
  <2> HIDE DEF Folds, h, Small
  <2> QED
    BY <2>6, <2>7
<1>5. Cardinality(D) \in T
  <2> HIDE DEF T
  <2> QED
    BY <1>1, <1>3, <1>4, NatSetInduction
<1>6. Small(Cardinality(D)) = SUBSET D
  <2>1. IsFiniteSet(D)
    BY <1>1
  <2> QED
    BY <2>1, FS_Subset
<1> QED
  BY <1>5, <1>6 DEF D, IsFold
=============================================================================
