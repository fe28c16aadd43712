--------------------------- MODULE KvCacheProofs ----------------------------
(***************************************************************************)
(* What the operations of the paged KV cache do to its blocks: lemmas for  *)
(* the proofs about sessions and transfers, for any block size and pool.   *)
(***************************************************************************)
EXTENDS KvCache, FoldTheorems, SequenceTheorems

(* Division and multiplication of naturals by a positive k.                *)
LEMMA DivFloor ==
  ASSUME NEW a \in Nat, NEW k \in Nat \ {0}
  PROVE  /\ a \div k \in Nat /\ a % k \in 0 .. k - 1
         /\ a = k * (a \div k) + (a % k)
         /\ (a \div k) * k <= a /\ a < (a \div k + 1) * k
OBVIOUS

LEMMA DivBound ==
  ASSUME NEW a \in Nat, NEW k \in Nat \ {0}, NEW q \in Nat
  PROVE  /\ q <= a \div k <=> q * k <= a
         /\ a \div k < q <=> a < q * k
<1>1. /\ a \div k \in Nat
      /\ (a \div k) * k <= a /\ a < (a \div k + 1) * k
  BY DivFloor
<1> DEFINE d == a \div k
<1> HIDE DEF d
<1>2. CASE q <= d
  <2>1. PICK e \in Nat : d = q + e
    BY <1>1, <1>2 DEF d
  <2>2. d * k = q * k + e * k /\ e * k \in Nat /\ q * k \in Nat
    BY <2>1
  <2> QED
    BY <1>1, <1>2, <2>2 DEF d
<1>3. CASE d < q
  <2>1. PICK e \in Nat : q = (d + 1) + e
    <3>1. q - (d + 1) \in Nat /\ q = (d + 1) + (q - (d + 1))
      BY <1>1, <1>3 DEF d
    <3> QED
      BY <3>1
  <2>2. q * k = (d + 1) * k + e * k /\ e * k \in Nat /\ d + 1 \in Nat
    BY <1>1, <2>1 DEF d
  <2>3. (d + 1) * k \in Nat
    BY <2>2
  <2> QED
    BY <1>1, <1>3, <2>2, <2>3 DEF d
<1> QED
  BY <1>1, <1>2, <1>3 DEF d

LEMMA TimesOrder ==
  ASSUME NEW k \in Nat \ {0}, NEW x \in Nat, NEW y \in Nat
  PROVE  /\ x * k \in Nat
         /\ x <= y <=> x * k <= y * k
         /\ x = y <=> x * k = y * k
         /\ (x + 1) * k = x * k + k
         /\ (x + y) * k = x * k + y * k
<1>1. x * k \in Nat /\ y * k \in Nat
  OBVIOUS
<1>2. (x + 1) * k = x * k + k /\ (x + y) * k = x * k + y * k
  OBVIOUS
<1>3. CASE x = y
  BY <1>1, <1>2, <1>3
<1>4. ASSUME NEW u \in Nat, NEW v \in Nat, u < v PROVE u * k < v * k
  <2>1. v = u + (v - u) /\ v - u \in Nat \ {0}
    BY <1>4
  <2>2. PICK e \in Nat \ {0} : v = u + e
    BY <2>1
  <2>3. v * k = u * k + e * k /\ e * k \in Nat \ {0} /\ u * k \in Nat
    BY <2>2
  <2> QED
    BY <2>3
<1>5. x < y \/ x = y \/ y < x
  OBVIOUS
<1>6. x < y => x * k < y * k
  BY <1>4
<1>7. y < x => y * k < x * k
  BY <1>4
<1> QED
  BY <1>1, <1>2, <1>3, <1>5, <1>6, <1>7

LEMMA DivOfTimes ==
  ASSUME NEW k \in Nat \ {0}, NEW x \in Nat
  PROVE  (x * k) \div k = x /\ (x * k) % k = 0
OBVIOUS

LEMMA DivExact ==
  ASSUME NEW m \in Nat, NEW k \in Nat \ {0}, m % k = 0
  PROVE  m \div k \in Nat /\ m = (m \div k) * k
<1>1. PICK q \in Nat : q = m \div k
  BY DivFloor
<1>2. m = k * q + 0
  BY <1>1, DivFloor
<1>3. k * q = q * k /\ q * k \in Nat
  BY TimesOrder
<1> QED
  BY <1>1, <1>2, <1>3

LEMMA CeilBound ==
  ASSUME NEW a \in Nat, NEW k \in Nat \ {0}
  PROVE /\ (a + k - 1) \div k \in Nat
        /\ ((a + k - 1) \div k) * k >= a
        /\ ((a + k - 1) \div k) * k < a + k
<1>1. PICK b \in Nat : b = a + k - 1
  OBVIOUS
<1>2. b \div k \in Nat /\ (b \div k) * k <= b /\ b < (b \div k + 1) * k
  BY DivFloor
<1>3. PICK d \in Nat : d = b \div k
  BY <1>2
<1>4. (d + 1) * k = d * k + k /\ d * k \in Nat
  BY TimesOrder
<1>5. d * k >= a /\ d * k < a + k
  BY <1>1, <1>2, <1>3, <1>4
<1> QED
  BY <1>1, <1>3, <1>5

-----------------------------------------------------------------------------
(* The caches that taking and dropping references can make of c.           *)
Recounts(c) ==
  [free : Seq(Blocks), ref_counts : [Blocks -> Int], blocks : {c.blocks},
   len : {c.len}, registry : {c.registry}, pool : {c.pool}]

LEMMA DecrefFields ==
  ASSUME NEW c, NEW d \in Recounts(c), NEW b \in Blocks
  PROVE  /\ Decref(d, b) \in Recounts(c)
         /\ Decref(d, b).ref_counts = [d.ref_counts EXCEPT ![b] = @ - 1]
         /\ Decref(d, b).free = IF d.ref_counts[b] = 1 THEN Append(d.free, b) ELSE d.free
<1>1. d.ref_counts \in [Blocks -> Int] /\ d.free \in Seq(Blocks)
  BY DEF Recounts
<1>2. [d.ref_counts EXCEPT ![b] = @ - 1] \in [Blocks -> Int]
  BY <1>1
<1>3. PICK rc \in [Blocks -> Int] : rc = [d.ref_counts EXCEPT ![b] = @ - 1]
  BY <1>2
<1>4. (IF d.ref_counts[b] = 1 THEN Append(d.free, b) ELSE d.free) \in Seq(Blocks)
  BY <1>1
<1>5. PICK fr \in Seq(Blocks) :
        fr = IF d.ref_counts[b] = 1 THEN Append(d.free, b) ELSE d.free
  BY <1>4
<1>6. Decref(d, b) = [d EXCEPT !.ref_counts = rc, !.free = fr]
  BY <1>3, <1>5 DEF Decref
<1>7. [d EXCEPT !.ref_counts = rc, !.free = fr] \in Recounts(c)
  BY DEF Recounts
<1>8. Decref(d, b).ref_counts = rc /\ Decref(d, b).free = fr
  BY <1>6 DEF Recounts
<1> QED
  BY <1>3, <1>5, <1>6, <1>7, <1>8

LEMMA IncrefFields ==
  ASSUME NEW c, NEW d \in Recounts(c), NEW b \in Blocks
  PROVE  /\ Incref(d, b) \in Recounts(c)
         /\ Incref(d, b).ref_counts = [d.ref_counts EXCEPT ![b] = @ + 1]
         /\ Incref(d, b).free = d.free
<1>1. d.ref_counts \in [Blocks -> Int]
  BY DEF Recounts
<1>2. [d.ref_counts EXCEPT ![b] = @ + 1] \in [Blocks -> Int]
  BY <1>1
<1>3. PICK rc \in [Blocks -> Int] : rc = [d.ref_counts EXCEPT ![b] = @ + 1]
  BY <1>2
<1>4. Incref(d, b) = [d EXCEPT !.ref_counts = rc]
  BY <1>3 DEF Incref
<1>5. [d EXCEPT !.ref_counts = rc] \in Recounts(c)
  BY DEF Recounts
<1>6. Incref(d, b).ref_counts = rc /\ Incref(d, b).free = d.free
  BY <1>4 DEF Recounts
<1> QED
  BY <1>3, <1>4, <1>5, <1>6

(* The steps of a fold of Decref along s.                                  *)
LEMMA DecrefTrace ==
  ASSUME NEW c, c \in Recounts(c), NEW s \in Seq(Blocks)
  PROVE  \E tr : /\ tr[0] = c
                 /\ \A i \in 1 .. Len(s) : tr[i] = Decref(tr[i - 1], s[i])
                 /\ FoldLeft(Decref, c, s) = tr[Len(s)]
<1> DEFINE n == Len(s)
           V == Recounts(c)
           op == [x \in V \X (1 .. n) |-> Decref(x[1], s[x[2]])]
           IsIt(g) == g = [t \in SUBSET (1 .. n) |->
                            IF t = {} THEN c ELSE Decref(g[t \ {Max(t)}], s[Max(t)])]
           h == CHOOSE g : IsIt(g)
<1>1. n \in Nat /\ DOMAIN s = 1 .. n /\ \A i \in 1 .. n : s[i] \in Blocks
  BY LenProperties, ElementOfSeq
<1> HIDE DEF n
<1>2. \A d \in V, i \in 1 .. n : Decref(d, s[i]) \in V
  BY <1>1, DecrefFields
<1> HIDE DEF V
<1>3. op \in [V \X (1 .. n) -> V] /\ c \in V
  BY <1>2 DEF V
<1>4. \E g : IsIt(g)
  <2>1. PICK g : IsFold(g, op, c, V, n)
    <3> HIDE DEF op, IsIt
    <3> QED
      BY <1>1, <1>3, FoldExists
  <2>2. \A t \in SUBSET (1 .. n) : t # {} =>
          Max(t) \in 1 .. n /\ <<g[t \ {Max(t)}], Max(t)>> \in V \X (1 .. n)
    BY <1>1, <2>1, MaxIsMember DEF IsFold
  <2>3. IsIt(g)
    BY <2>1, <2>2 DEF IsFold
  <2> HIDE DEF IsIt
  <2> QED
    BY <2>3
<1>5. IsIt(h)
  <2> HIDE DEF IsIt
  <2> QED
    BY <1>4
<1>6. FoldLeft(Decref, c, s) = h[1 .. n]
  BY <1>1 DEF FoldLeft, MapThenFoldSet
<1> HIDE DEF h
<1>7. PICK tr : IsTrace(tr, h, n)
  BY <1>1, TraceExists
<1>8. tr[0] = c
  BY <1>5, <1>7 DEF IsTrace
<1>9. ASSUME NEW i \in 1 .. n PROVE tr[i] = Decref(tr[i - 1], s[i])
  <2>1. h[1 .. i] = Decref(h[(1 .. i) \ {Max(1 .. i)}], s[Max(1 .. i)])
    BY <1>5, <1>7 DEF IsTrace
  <2> QED
    BY <1>7, <2>1 DEF IsTrace
<1> QED
  BY <1>6, <1>7, <1>8, <1>9 DEF n, IsTrace

(* The steps of a fold of Incref along s.                                  *)
LEMMA IncrefTrace ==
  ASSUME NEW c, c \in Recounts(c), NEW s \in Seq(Blocks)
  PROVE  \E tr : /\ tr[0] = c
                 /\ \A i \in 1 .. Len(s) : tr[i] = Incref(tr[i - 1], s[i])
                 /\ FoldLeft(Incref, c, s) = tr[Len(s)]
<1> DEFINE n == Len(s)
           V == Recounts(c)
           op == [x \in V \X (1 .. n) |-> Incref(x[1], s[x[2]])]
           IsIt(g) == g = [t \in SUBSET (1 .. n) |->
                            IF t = {} THEN c ELSE Incref(g[t \ {Max(t)}], s[Max(t)])]
           h == CHOOSE g : IsIt(g)
<1>1. n \in Nat /\ DOMAIN s = 1 .. n /\ \A i \in 1 .. n : s[i] \in Blocks
  BY LenProperties, ElementOfSeq
<1> HIDE DEF n
<1>2. \A d \in V, i \in 1 .. n : Incref(d, s[i]) \in V
  BY <1>1, IncrefFields
<1> HIDE DEF V
<1>3. op \in [V \X (1 .. n) -> V] /\ c \in V
  BY <1>2 DEF V
<1>4. \E g : IsIt(g)
  <2>1. PICK g : IsFold(g, op, c, V, n)
    <3> HIDE DEF op, IsIt
    <3> QED
      BY <1>1, <1>3, FoldExists
  <2>2. \A t \in SUBSET (1 .. n) : t # {} =>
          Max(t) \in 1 .. n /\ <<g[t \ {Max(t)}], Max(t)>> \in V \X (1 .. n)
    BY <1>1, <2>1, MaxIsMember DEF IsFold
  <2>3. IsIt(g)
    BY <2>1, <2>2 DEF IsFold
  <2> HIDE DEF IsIt
  <2> QED
    BY <2>3
<1>5. IsIt(h)
  <2> HIDE DEF IsIt
  <2> QED
    BY <1>4
<1>6. FoldLeft(Incref, c, s) = h[1 .. n]
  BY <1>1 DEF FoldLeft, MapThenFoldSet
<1> HIDE DEF h
<1>7. PICK tr : IsTrace(tr, h, n)
  BY <1>1, TraceExists
<1>8. tr[0] = c
  BY <1>5, <1>7 DEF IsTrace
<1>9. ASSUME NEW i \in 1 .. n PROVE tr[i] = Incref(tr[i - 1], s[i])
  <2>1. h[1 .. i] = Incref(h[(1 .. i) \ {Max(1 .. i)}], s[Max(1 .. i)])
    BY <1>5, <1>7 DEF IsTrace
  <2> QED
    BY <1>7, <2>1 DEF IsTrace
<1> QED
  BY <1>6, <1>7, <1>8, <1>9 DEF n, IsTrace

-----------------------------------------------------------------------------
(* Sequences without repetition.                                           *)
LEMMA AppendDistinct ==
  ASSUME NEW S, NEW f \in Seq(S), IsInjective(f), NEW b \in S, b \notin ToSet(f)
  PROVE  /\ Append(f, b) \in Seq(S)
         /\ IsInjective(Append(f, b))
         /\ ToSet(Append(f, b)) = ToSet(f) \cup {b}
<1> DEFINE n == Len(f)
           g == Append(f, b)
<1>1. n \in Nat /\ DOMAIN f = 1 .. n
  BY LenProperties
<1>2. g \in Seq(S) /\ DOMAIN g = 1 .. (n + 1) /\ g[n + 1] = b /\ \A i \in 1 .. n : g[i] = f[i]
  BY AppendProperties, LenProperties
<1> HIDE DEF n, g
<1>3. \A i \in 1 .. n : f[i] # b
  BY <1>1 DEF ToSet
<1>4. 1 .. (n + 1) = (1 .. n) \cup {n + 1} /\ n + 1 \notin 1 .. n
  BY <1>1
<1>5. IsInjective(g)
  BY <1>1, <1>2, <1>3, <1>4 DEF IsInjective
<1>6. ToSet(g) = ToSet(f) \cup {b}
  BY <1>1, <1>2, <1>4 DEF ToSet
<1> QED
  BY <1>2, <1>5, <1>6 DEF g

(* Dropping one reference on each of some blocks: those that held the last *)
(* one go to the free stack.                                               *)
LEMMA DecrefEach ==
  ASSUME NEW c, c \in Recounts(c), IsInjective(c.free),
         NEW s \in Seq(Blocks), IsInjective(s),
         \A b \in ToSet(s) : c.ref_counts[b] >= 1 /\ b \notin ToSet(c.free),
         NEW d, d = FoldLeft(Decref, c, s)
  PROVE  /\ d \in Recounts(c)
         /\ IsInjective(d.free)
         /\ ToSet(d.free) = ToSet(c.free) \cup {b \in ToSet(s) : c.ref_counts[b] = 1}
         /\ \A b \in ToSet(s) : d.ref_counts[b] = c.ref_counts[b] - 1
         /\ \A b \in Blocks \ ToSet(s) : d.ref_counts[b] = c.ref_counts[b]
<1> DEFINE n == Len(s)
           Done(k) == {s[i] : i \in 1 .. k}
           P(x, k) ==
             /\ x \in Recounts(c)
             /\ IsInjective(x.free)
             /\ ToSet(x.free) = ToSet(c.free) \cup {b \in Done(k) : c.ref_counts[b] = 1}
             /\ \A b \in Done(k) : x.ref_counts[b] = c.ref_counts[b] - 1
             /\ \A b \in Blocks \ Done(k) : x.ref_counts[b] = c.ref_counts[b]
<1>1. n \in Nat /\ DOMAIN s = 1 .. n /\ \A i \in 1 .. n : s[i] \in Blocks
  BY LenProperties, ElementOfSeq
<1>2. PICK tr : /\ tr[0] = c
                /\ \A i \in 1 .. n : tr[i] = Decref(tr[i - 1], s[i])
                /\ FoldLeft(Decref, c, s) = tr[n]
  BY DecrefTrace
<1> HIDE DEF n
<1>3. Done(n) = ToSet(s)
  BY <1>1 DEF ToSet
<1>4. P(tr[0], 0)
  <2>1. Done(0) = {}
    OBVIOUS
  <2> QED
    BY <1>2, <2>1
<1>5. ASSUME NEW k \in Nat, k + 1 <= n, P(tr[k], k) PROVE P(tr[k + 1], k + 1)
  <2> DEFINE b == s[k + 1]
             x == tr[k]
  <2>1. /\ k + 1 \in 1 .. n /\ 1 .. k \subseteq 1 .. n /\ k + 1 \notin 1 .. k
        /\ 1 .. (k + 1) = (1 .. k) \cup {k + 1}
    BY <1>1, <1>5
  <2>2. tr[k + 1] = Decref(x, b)
    <3>1. (k + 1) - 1 = k
      OBVIOUS
    <3> QED
      BY <1>2, <2>1, <3>1
  <2>3. b \in Blocks /\ b \in ToSet(s) /\ b \notin Done(k) /\ Done(k) \subseteq ToSet(s)
    BY <1>1, <2>1 DEF IsInjective, ToSet
  <2>4. Done(k + 1) = Done(k) \cup {b}
    BY <2>1
  <2> HIDE DEF b, x, Done
  <2>5. /\ tr[k + 1] \in Recounts(c)
        /\ tr[k + 1].ref_counts = [x.ref_counts EXCEPT ![b] = @ - 1]
        /\ tr[k + 1].free = IF x.ref_counts[b] = 1 THEN Append(x.free, b) ELSE x.free
    <3>1. x \in Recounts(c)
      BY <1>5 DEF x
    <3> HIDE DEF P
    <3> QED
      BY <2>2, <2>3, <3>1, DecrefFields
  <2>6. /\ x \in Recounts(c)
        /\ IsInjective(x.free)
        /\ ToSet(x.free) = ToSet(c.free) \cup {e \in Done(k) : c.ref_counts[e] = 1}
        /\ x.ref_counts[b] = c.ref_counts[b]
        /\ b \notin ToSet(x.free)
    BY <1>5, <2>3 DEF x
  <2>7. x.free \in Seq(Blocks) /\ x.ref_counts \in [Blocks -> Int] /\ c.ref_counts \in [Blocks -> Int]
    BY <2>6 DEF Recounts
  <2>8. /\ \A e \in Done(k + 1) : tr[k + 1].ref_counts[e] = c.ref_counts[e] - 1
        /\ \A e \in Blocks \ Done(k + 1) : tr[k + 1].ref_counts[e] = c.ref_counts[e]
    <3>1. tr[k + 1].ref_counts[b] = c.ref_counts[b] - 1
      BY <2>3, <2>5, <2>6, <2>7
    <3>2. \A e \in Blocks \ {b} : tr[k + 1].ref_counts[e] = x.ref_counts[e]
      BY <2>5, <2>7
    <3>3. ToSet(s) \subseteq Blocks
      BY <1>1 DEF ToSet
    <3> QED
      BY <1>5, <2>3, <2>4, <3>1, <3>2, <3>3 DEF x
  <2>9. CASE x.ref_counts[b] = 1
    <3>1. /\ IsInjective(Append(x.free, b))
          /\ ToSet(Append(x.free, b)) = ToSet(x.free) \cup {b}
      BY <2>3, <2>6, <2>7, AppendDistinct
    <3>2. ToSet(tr[k + 1].free) = ToSet(c.free) \cup {e \in Done(k + 1) : c.ref_counts[e] = 1}
      BY <2>4, <2>5, <2>6, <2>9, <3>1
    <3> QED
      BY <2>5, <2>8, <2>9, <3>1, <3>2
  <2>10. CASE x.ref_counts[b] # 1
    BY <2>4, <2>5, <2>6, <2>8, <2>10
  <2> QED
    BY <2>9, <2>10
<1> HIDE DEF P
<1> DEFINE T == {k \in Nat : k <= n => P(tr[k], k)}
<1>6. 0 \in T
  BY <1>4
<1>7. ASSUME NEW k \in Nat, k \in T PROVE k + 1 \in T
  BY <1>1, <1>5, <1>7
<1>8. n \in T
  <2> HIDE DEF T
  <2> QED
    BY <1>1, <1>6, <1>7, NatSetInduction
<1> QED
  BY <1>1, <1>2, <1>3, <1>8 DEF P, n

(* Taking one reference on each of some blocks.                            *)
LEMMA IncrefEach ==
  ASSUME NEW c, c \in Recounts(c), NEW s \in Seq(Blocks), IsInjective(s),
         NEW d, d = FoldLeft(Incref, c, s)
  PROVE  /\ d \in Recounts(c)
         /\ d.free = c.free
         /\ \A b \in ToSet(s) : d.ref_counts[b] = c.ref_counts[b] + 1
         /\ \A b \in Blocks \ ToSet(s) : d.ref_counts[b] = c.ref_counts[b]
<1> DEFINE n == Len(s)
           Done(k) == {s[i] : i \in 1 .. k}
           P(x, k) ==
             /\ x \in Recounts(c)
             /\ x.free = c.free
             /\ \A b \in Done(k) : x.ref_counts[b] = c.ref_counts[b] + 1
             /\ \A b \in Blocks \ Done(k) : x.ref_counts[b] = c.ref_counts[b]
<1>1. n \in Nat /\ DOMAIN s = 1 .. n /\ \A i \in 1 .. n : s[i] \in Blocks
  BY LenProperties, ElementOfSeq
<1>2. PICK tr : /\ tr[0] = c
                /\ \A i \in 1 .. n : tr[i] = Incref(tr[i - 1], s[i])
                /\ FoldLeft(Incref, c, s) = tr[n]
  BY IncrefTrace
<1> HIDE DEF n
<1>3. Done(n) = ToSet(s)
  BY <1>1 DEF ToSet
<1>4. P(tr[0], 0)
  <2>1. Done(0) = {}
    OBVIOUS
  <2> QED
    BY <1>2, <2>1
<1>5. ASSUME NEW k \in Nat, k + 1 <= n, P(tr[k], k) PROVE P(tr[k + 1], k + 1)
  <2> DEFINE b == s[k + 1]
             x == tr[k]
  <2>1. /\ k + 1 \in 1 .. n /\ 1 .. k \subseteq 1 .. n /\ k + 1 \notin 1 .. k
        /\ 1 .. (k + 1) = (1 .. k) \cup {k + 1}
    BY <1>1, <1>5
  <2>2. tr[k + 1] = Incref(x, b)
    <3>1. (k + 1) - 1 = k
      OBVIOUS
    <3> QED
      BY <1>2, <2>1, <3>1
  <2>3. b \in Blocks /\ b \notin Done(k) /\ Done(k) \subseteq Blocks
    BY <1>1, <2>1 DEF IsInjective
  <2>4. Done(k + 1) = Done(k) \cup {b}
    BY <2>1
  <2> HIDE DEF b, x, Done
  <2>5. /\ tr[k + 1] \in Recounts(c)
        /\ tr[k + 1].ref_counts = [x.ref_counts EXCEPT ![b] = @ + 1]
        /\ tr[k + 1].free = x.free
    <3>1. x \in Recounts(c)
      BY <1>5 DEF x
    <3> HIDE DEF P
    <3> QED
      BY <2>2, <2>3, <3>1, IncrefFields
  <2>6. x \in Recounts(c) /\ x.free = c.free /\ x.ref_counts[b] = c.ref_counts[b]
    BY <1>5, <2>3 DEF x
  <2>7. x.ref_counts \in [Blocks -> Int] /\ c.ref_counts \in [Blocks -> Int]
    BY <2>6 DEF Recounts
  <2>8. tr[k + 1].ref_counts[b] = c.ref_counts[b] + 1
    BY <2>3, <2>5, <2>6, <2>7
  <2>9. \A e \in Blocks \ {b} : tr[k + 1].ref_counts[e] = x.ref_counts[e]
    BY <2>5, <2>7
  <2> QED
    BY <1>5, <2>3, <2>4, <2>5, <2>6, <2>8, <2>9 DEF x
<1> HIDE DEF P
<1> DEFINE T == {k \in Nat : k <= n => P(tr[k], k)}
<1>6. 0 \in T
  BY <1>4
<1>7. ASSUME NEW k \in Nat, k \in T PROVE k + 1 \in T
  BY <1>1, <1>5, <1>7
<1>8. n \in T
  <2> HIDE DEF T
  <2> QED
    BY <1>1, <1>6, <1>7, NatSetInduction
<1> QED
  BY <1>1, <1>2, <1>3, <1>8 DEF P, n

-----------------------------------------------------------------------------
(* The account of the blocks.  Table: the blocks of the live sequence.     *)
(* Cached: the blocks the registry serves.                                 *)
Table(c) == ToSet(c.blocks)

Cached(c) == {c.registry[p] : p \in DOMAIN c.registry}

KvCacheType(c) ==
  c \in [free : Seq(Blocks), ref_counts : [Blocks -> Nat], blocks : Seq(Blocks),
         len : Nat, registry : {c.registry}, pool : {c.pool}]

(* A block has one reference for its place in the table and one for its    *)
(* entry in the registry; the free stack has those that have neither.      *)
Accounted(c) ==
  /\ IsInjective(c.free)
  /\ IsInjective(c.blocks)
  /\ \A p, q \in DOMAIN c.registry : c.registry[p] = c.registry[q] => p = q
  /\ Cached(c) \subseteq Blocks
  /\ ToSet(c.free) = Blocks \ (Table(c) \cup Cached(c))
  /\ \A b \in Table(c) \cap Cached(c) : c.ref_counts[b] = 2
  /\ \A b \in Table(c) \ Cached(c) : c.ref_counts[b] = 1
  /\ \A b \in Cached(c) \ Table(c) : c.ref_counts[b] = 1
  /\ \A b \in Blocks \ (Table(c) \cup Cached(c)) : c.ref_counts[b] = 0

LEMMA TypeRecounts ==
  ASSUME NEW c, KvCacheType(c)
  PROVE  /\ c \in Recounts(c)
         /\ c.free \in Seq(Blocks) /\ c.ref_counts \in [Blocks -> Nat]
         /\ c.blocks \in Seq(Blocks) /\ c.len \in Nat
         /\ Table(c) \subseteq Blocks /\ ToSet(c.free) \subseteq Blocks
<1>1. /\ c.free \in Seq(Blocks) /\ c.ref_counts \in [Blocks -> Nat]
      /\ c.blocks \in Seq(Blocks) /\ c.len \in Nat
  BY DEF KvCacheType
<1>2. c \in Recounts(c)
  <2>1. c.ref_counts \in [Blocks -> Int]
    BY <1>1
  <2> QED
    BY <1>1, <2>1 DEF KvCacheType, Recounts
<1>3. \A s \in Seq(Blocks) : ToSet(s) \subseteq Blocks
  BY ElementOfSeq, LenProperties DEF ToSet
<1> QED
  BY <1>1, <1>2, <1>3 DEF Table

(* When every block of the table loses its reference and the table is      *)
(* emptied, what remains held is what is cached.                           *)
LEMMA TableDropped ==
  ASSUME NEW c, KvCacheType(c), Accounted(c),
         NEW x, x = FoldLeft(Decref, c, c.blocks)
  PROVE  /\ x \in [free : Seq(Blocks), ref_counts : [Blocks -> Nat], blocks : {c.blocks},
                   len : {c.len}, registry : {c.registry}, pool : {c.pool}]
         /\ \A d : /\ KvCacheType(d)
                   /\ d.free = x.free /\ d.ref_counts = x.ref_counts
                   /\ d.registry = c.registry /\ d.blocks = Empty
                   => Accounted(d)
<1>1. /\ c \in Recounts(c)
      /\ c.free \in Seq(Blocks) /\ c.ref_counts \in [Blocks -> Nat]
      /\ c.blocks \in Seq(Blocks)
      /\ Table(c) \subseteq Blocks
  BY TypeRecounts
<1>2. \A b \in Table(c) : c.ref_counts[b] >= 1 /\ b \notin ToSet(c.free)
  BY DEF Accounted
<1>3. /\ x \in Recounts(c)
      /\ IsInjective(x.free)
      /\ ToSet(x.free) = ToSet(c.free) \cup {b \in Table(c) : c.ref_counts[b] = 1}
      /\ \A b \in Table(c) : x.ref_counts[b] = c.ref_counts[b] - 1
      /\ \A b \in Blocks \ Table(c) : x.ref_counts[b] = c.ref_counts[b]
  <2>1. IsInjective(c.free) /\ IsInjective(c.blocks)
    BY DEF Accounted
  <2> QED
    BY <1>1, <1>2, <2>1, DecrefEach DEF Table
<1>4. /\ \A b \in Cached(c) : x.ref_counts[b] = 1
      /\ \A b \in Blocks \ Cached(c) : x.ref_counts[b] = 0
      /\ Cached(c) \subseteq Blocks
  <2>1. /\ \A b \in Table(c) \cap Cached(c) : c.ref_counts[b] = 2
        /\ \A b \in Table(c) \ Cached(c) : c.ref_counts[b] = 1
        /\ \A b \in Cached(c) \ Table(c) : c.ref_counts[b] = 1
        /\ \A b \in Blocks \ (Table(c) \cup Cached(c)) : c.ref_counts[b] = 0
        /\ Cached(c) \subseteq Blocks
    BY DEF Accounted
  <2>2. /\ \A b \in Table(c) : x.ref_counts[b] = c.ref_counts[b] - 1
        /\ \A b \in Blocks \ Table(c) : x.ref_counts[b] = c.ref_counts[b]
    BY <1>3
  <2>3. ASSUME NEW b \in Cached(c) PROVE x.ref_counts[b] = 1
    <3>1. CASE b \in Table(c)
      BY ONLY <2>1, <2>2, <2>3, <3>1
    <3>2. CASE b \notin Table(c)
      BY ONLY <2>1, <2>2, <2>3, <3>2
    <3> QED
      BY <3>1, <3>2
  <2>4. ASSUME NEW b \in Blocks \ Cached(c) PROVE x.ref_counts[b] = 0
    <3>1. CASE b \in Table(c)
      BY ONLY <2>1, <2>2, <2>4, <3>1
    <3>2. CASE b \notin Table(c)
      BY ONLY <2>1, <2>2, <2>4, <3>2
    <3> QED
      BY <3>1, <3>2
  <2> QED
    BY <2>1, <2>3, <2>4
<1>5. x.ref_counts \in [Blocks -> Nat]
  <2>1. x.ref_counts \in [Blocks -> Int]
    BY <1>3 DEF Recounts
  <2> QED
    BY <1>4, <2>1
<1>6. x \in [free : Seq(Blocks), ref_counts : [Blocks -> Nat], blocks : {c.blocks},
             len : {c.len}, registry : {c.registry}, pool : {c.pool}]
  BY <1>3, <1>5 DEF Recounts
<1>7. ToSet(x.free) = Blocks \ Cached(c)
  BY <1>1, <1>3 DEF Accounted
<1>8. ASSUME NEW d, KvCacheType(d), d.free = x.free, d.ref_counts = x.ref_counts,
             d.registry = c.registry, d.blocks = Empty
      PROVE  Accounted(d)
  <2>1. Table(d) = {} /\ IsInjective(d.blocks)
    BY <1>8 DEF Table, ToSet, IsInjective, Empty
  <2>2. Cached(d) = Cached(c)
    BY <1>8 DEF Cached
  <2> QED
    BY <1>3, <1>4, <1>7, <1>8, <2>1, <2>2 DEF Accounted
<1> QED
  BY <1>6, <1>8

LEMMA ResetAccount ==
  ASSUME NEW c, KvCacheType(c), Accounted(c), NEW d, d = ResetSequence(c)
  PROVE  /\ KvCacheType(d) /\ Accounted(d)
         /\ d.blocks = Empty /\ d.len = 0
         /\ d.registry = c.registry /\ d.pool = c.pool
<1> DEFINE x == FoldLeft(Decref, c, c.blocks)
<1>1. /\ x \in [free : Seq(Blocks), ref_counts : [Blocks -> Nat], blocks : {c.blocks},
                len : {c.len}, registry : {c.registry}, pool : {c.pool}]
      /\ \A e : /\ KvCacheType(e)
                /\ e.free = x.free /\ e.ref_counts = x.ref_counts
                /\ e.registry = c.registry /\ e.blocks = Empty
                => Accounted(e)
  BY TableDropped
<1>2. d = [x EXCEPT !.blocks = Empty, !.len = 0]
  BY DEF ResetSequence
<1> HIDE DEF x
<1>3. Empty \in Seq(Blocks) /\ 0 \in Nat
  BY EmptySeq DEF Empty
<1>4. /\ d.free = x.free /\ d.ref_counts = x.ref_counts /\ d.blocks = Empty /\ d.len = 0
      /\ d.registry = c.registry /\ d.pool = c.pool
  BY <1>1, <1>2
<1>5. KvCacheType(d)
  <2>1. d \in [free : Seq(Blocks), ref_counts : [Blocks -> Nat], blocks : Seq(Blocks),
               len : Nat, registry : {c.registry}, pool : {c.pool}]
    BY <1>1, <1>2, <1>3
  <2> QED
    BY <1>4, <2>1 DEF KvCacheType
<1> QED
  BY <1>1, <1>4, <1>5

(* The half-built table of a failed import is dropped, its length kept.    *)
LEMMA RollBackAccount ==
  ASSUME NEW c, KvCacheType(c), Accounted(c),
         NEW d, d = [FoldLeft(Decref, c, c.blocks) EXCEPT !.blocks = Empty]
  PROVE  /\ KvCacheType(d) /\ Accounted(d)
         /\ d.blocks = Empty /\ d.len = c.len
         /\ d.registry = c.registry /\ d.pool = c.pool
<1> DEFINE x == FoldLeft(Decref, c, c.blocks)
<1>1. /\ x \in [free : Seq(Blocks), ref_counts : [Blocks -> Nat], blocks : {c.blocks},
                len : {c.len}, registry : {c.registry}, pool : {c.pool}]
      /\ \A e : /\ KvCacheType(e)
                /\ e.free = x.free /\ e.ref_counts = x.ref_counts
                /\ e.registry = c.registry /\ e.blocks = Empty
                => Accounted(e)
  BY TableDropped
<1>2. d = [x EXCEPT !.blocks = Empty]
  OBVIOUS
<1> HIDE DEF x
<1>3. Empty \in Seq(Blocks) /\ c.len \in Nat
  BY EmptySeq, TypeRecounts DEF Empty
<1>4. /\ d.free = x.free /\ d.ref_counts = x.ref_counts /\ d.blocks = Empty /\ d.len = c.len
      /\ d.registry = c.registry /\ d.pool = c.pool
  BY <1>1, <1>2
<1>5. KvCacheType(d)
  <2>1. d \in [free : Seq(Blocks), ref_counts : [Blocks -> Nat], blocks : Seq(Blocks),
               len : Nat, registry : {c.registry}, pool : {c.pool}]
    BY <1>1, <1>2, <1>3
  <2> QED
    BY <1>4, <2>1 DEF KvCacheType
<1> QED
  BY <1>1, <1>4, <1>5

-----------------------------------------------------------------------------
(* Taking n blocks, t, from the top of a stack f without repetition.       *)
Splits(f, n, t, r) ==
  /\ n \in 0 .. Len(f)
  /\ t = Reverse(SubSeq(f, Len(f) - n + 1, Len(f)))
  /\ r = SubSeq(f, 1, Len(f) - n)

Parts(S, f, n, t, r) ==
  /\ t \in Seq(S) /\ Len(t) = n /\ IsInjective(t)
  /\ r \in Seq(S) /\ Len(r) = Len(f) - n /\ IsInjective(r)
  /\ ToSet(t) \subseteq ToSet(f)
  /\ ToSet(r) = ToSet(f) \ ToSet(t)

LEMMA SplitStack ==
  ASSUME NEW S, NEW f \in Seq(S), IsInjective(f), NEW n \in Nat, NEW t, NEW r, Splits(f, n, t, r)
  PROVE  Parts(S, f, n, t, r)
<1> DEFINE m == Len(f)
           u == SubSeq(f, m - n + 1, m)
<1>1. m \in Nat /\ DOMAIN f = 1 .. m /\ n \in 0 .. m /\ \A i \in 1 .. m : f[i] \in S
  BY LenProperties, ElementOfSeq DEF Splits
<1>2. t = [i \in 1 .. Len(u) |-> u[(Len(u) - i) + 1]]
  BY DEF Reverse, Splits
<1>3. r = SubSeq(f, 1, m - n)
  BY DEF Splits
<1> HIDE DEF m
<1>4. Len(u) = n /\ \A i \in 1 .. n : u[i] = f[m - n + i]
  <2>1. \A i \in (m - n + 1) .. m : f[i] \in S
    BY <1>1
  <2>2. m - n + 1 \in Int /\ m \in Int
    BY <1>1
  <2>3. /\ Len(u) = IF m - n + 1 <= m THEN m - (m - n + 1) + 1 ELSE 0
        /\ \A i \in 1 .. m - (m - n + 1) + 1 : u[i] = f[(m - n + 1) + i - 1]
    BY <2>1, <2>2, SubSeqProperties
  <2>4. m - (m - n + 1) + 1 = n /\ (m - n + 1 <= m <=> n >= 1)
    BY <1>1
  <2>5. \A i \in 1 .. n : (m - n + 1) + i - 1 = m - n + i
    BY <1>1
  <2> HIDE DEF u
  <2> QED
    BY <1>1, <2>3, <2>4, <2>5
<1> HIDE DEF u
<1>5. t = [i \in 1 .. n |-> f[m - i + 1]]
  <2>1. \A i \in 1 .. n : (n - i) + 1 \in 1 .. n /\ m - n + ((n - i) + 1) = m - i + 1
    BY <1>1
  <2> QED
    BY <1>2, <1>4, <2>1
<1>6. \A i \in 1 .. n : m - i + 1 \in 1 .. m
  BY <1>1
<1>7. t \in Seq(S) /\ Len(t) = n /\ DOMAIN t = 1 .. n
  <2>1. t \in [1 .. n -> S]
    BY <1>1, <1>5, <1>6
  <2>2. t \in Seq(S)
    BY <1>1, <2>1, SeqDef
  <2> QED
    BY <1>1, <2>1, <2>2, LenProperties
<1>8. r \in Seq(S) /\ Len(r) = m - n /\ \A i \in 1 .. m - n : r[i] = f[i]
  <2>1. \A i \in 1 .. m - n : f[i] \in S
    BY <1>1
  <2>2. 1 \in Int /\ m - n \in Int
    BY <1>1
  <2>3. /\ r \in Seq(S)
        /\ Len(r) = IF 1 <= m - n THEN (m - n) - 1 + 1 ELSE 0
        /\ \A i \in 1 .. (m - n) - 1 + 1 : r[i] = f[1 + i - 1]
    BY <1>3, <2>1, <2>2, SubSeqProperties
  <2>4. (m - n) - 1 + 1 = m - n /\ (~(1 <= m - n) => m - n = 0)
    BY <1>1
  <2>5. \A i \in 1 .. m - n : 1 + i - 1 = i
    BY <1>1
  <2> QED
    BY <2>3, <2>4, <2>5
<1>9. DOMAIN r = 1 .. m - n
  BY <1>8, LenProperties
<1>10. IsInjective(t)
  <2> SUFFICES ASSUME NEW i \in 1 .. n, NEW j \in 1 .. n, t[i] = t[j] PROVE i = j
    BY <1>7 DEF IsInjective
  <2>1. m - i + 1 = m - j + 1
    BY <1>1, <1>5, <1>6 DEF IsInjective
  <2> QED
    BY <1>1, <2>1
<1>11. IsInjective(r)
  <2>1. 1 .. m - n \subseteq 1 .. m
    BY <1>1
  <2> QED
    BY <1>1, <1>8, <1>9, <2>1 DEF IsInjective
<1>12. ToSet(t) \subseteq ToSet(f)
  BY <1>1, <1>5, <1>6, <1>7 DEF ToSet
<1>13. ToSet(r) = ToSet(f) \ ToSet(t)
  <2>1. ASSUME NEW i \in 1 .. m - n, NEW j \in 1 .. n PROVE r[i] # t[j]
    <3>1. i \in 1 .. m /\ m - j + 1 \in 1 .. m /\ i # m - j + 1
      BY <1>1
    <3> QED
      BY <1>1, <1>5, <1>8, <3>1 DEF IsInjective
  <2>2. ASSUME NEW i \in 1 .. m, f[i] \notin ToSet(t) PROVE f[i] \in ToSet(r)
    <3>1. i \in 1 .. m - n
      <4>1. CASE i \in 1 .. m - n
        BY <4>1
      <4>2. CASE i \notin 1 .. m - n
        <5>1. m - i + 1 \in 1 .. n /\ m - (m - i + 1) + 1 = i
          BY <1>1, <4>2
        <5>2. t[m - i + 1] = f[i]
          BY <1>5, <5>1
        <5> QED
          BY <1>7, <2>2, <5>1, <5>2 DEF ToSet
      <4> QED
        BY <4>1, <4>2
    <3> QED
      BY <1>8, <1>9, <3>1 DEF ToSet
  <2>3. 1 .. m - n \subseteq 1 .. m
    BY <1>1
  <2>4. ToSet(r) \subseteq ToSet(f)
    BY <1>1, <1>8, <1>9, <2>3 DEF ToSet
  <2>5. ToSet(r) \cap ToSet(t) = {}
    <3>1. ToSet(r) = {r[i] : i \in 1 .. m - n} /\ ToSet(t) = {t[j] : j \in 1 .. n}
      BY <1>7, <1>9 DEF ToSet
    <3> QED
      BY ONLY <2>1, <3>1
  <2>6. ToSet(f) \ ToSet(t) \subseteq ToSet(r)
    BY <1>1, <2>2 DEF ToSet
  <2> QED
    BY <2>4, <2>5, <2>6
<1> QED
  BY <1>7, <1>8, <1>10, <1>11, <1>12, <1>13 DEF m, Parts

(* Putting one sequence without repetition after another.                  *)
LEMMA ConcatDistinct ==
  ASSUME NEW S, NEW s \in Seq(S), IsInjective(s), NEW t \in Seq(S), IsInjective(t),
         ToSet(s) \cap ToSet(t) = {}
  PROVE  /\ s \o t \in Seq(S) /\ IsInjective(s \o t)
         /\ ToSet(s \o t) = ToSet(s) \cup ToSet(t)
         /\ Len(s \o t) = Len(s) + Len(t)
         /\ \A i \in 1 .. Len(s) : (s \o t)[i] = s[i]
         /\ \A i \in Len(s) + 1 .. Len(s \o t) : (s \o t)[i] \in ToSet(t)
<1> DEFINE m == Len(s)
           n == Len(t)
           u == s \o t
<1>1. m \in Nat /\ n \in Nat /\ DOMAIN s = 1 .. m /\ DOMAIN t = 1 .. n
  BY LenProperties
<1>2. /\ u \in Seq(S) /\ Len(u) = m + n
      /\ \A i \in 1 .. m + n : u[i] = IF i <= m THEN s[i] ELSE t[i - m]
  BY ConcatProperties
<1>3. DOMAIN u = 1 .. m + n
  BY <1>2, LenProperties
<1> HIDE DEF m, n, u
<1>4. \A i \in 1 .. m : i \in 1 .. m + n /\ u[i] = s[i]
  BY <1>1, <1>2
<1>5. \A i \in 1 .. n : m + i \in 1 .. m + n /\ u[m + i] = t[i]
  <2> TAKE i \in 1 .. n
  <2>1. m + i \in 1 .. m + n /\ ~(m + i <= m) /\ (m + i) - m = i
    BY <1>1
  <2> QED
    BY <1>2, <2>1
<1>6. \A i \in 1 .. m + n : i \in 1 .. m \/ (i - m \in 1 .. n /\ i = m + (i - m))
  BY <1>1
<1>7. IsInjective(u)
  <2> SUFFICES ASSUME NEW i \in 1 .. m + n, NEW j \in 1 .. m + n, u[i] = u[j] PROVE i = j
    BY <1>3 DEF IsInjective
  <2>1. \A k \in 1 .. m, l \in 1 .. n : s[k] # t[l]
    BY <1>1 DEF ToSet
  <2>2. CASE i \in 1 .. m /\ j \in 1 .. m
    BY <1>1, <1>4, <2>2 DEF IsInjective
  <2>3. CASE i \in 1 .. m /\ j \notin 1 .. m
    <3>1. j - m \in 1 .. n /\ u[j] = t[j - m]
      BY <1>5, <1>6, <2>3
    <3> QED
      BY <1>4, <2>1, <2>3, <3>1
  <2>4. CASE i \notin 1 .. m /\ j \in 1 .. m
    <3>1. i - m \in 1 .. n /\ u[i] = t[i - m]
      BY <1>5, <1>6, <2>4
    <3> QED
      BY <1>4, <2>1, <2>4, <3>1
  <2>5. CASE i \notin 1 .. m /\ j \notin 1 .. m
    <3>1. /\ j - m \in 1 .. n /\ u[j] = t[j - m]
          /\ i - m \in 1 .. n /\ u[i] = t[i - m]
      BY <1>5, <1>6, <2>5
    <3>2. i - m = j - m
      BY <1>1, <3>1 DEF IsInjective
    <3> QED
      BY <1>1, <3>2
  <2> QED
    BY <2>2, <2>3, <2>4, <2>5
<1>8. ToSet(u) = ToSet(s) \cup ToSet(t)
  <2>1. ToSet(u) \subseteq ToSet(s) \cup ToSet(t)
    <3> SUFFICES ASSUME NEW i \in 1 .. m + n PROVE u[i] \in ToSet(s) \cup ToSet(t)
      BY <1>3 DEF ToSet
    <3>1. CASE i \in 1 .. m
      BY <1>1, <1>4, <3>1 DEF ToSet
    <3>2. CASE i \notin 1 .. m
      <4>1. i - m \in 1 .. n /\ u[i] = t[i - m]
        BY <1>5, <1>6, <3>2
      <4> QED
        BY <1>1, <4>1 DEF ToSet
    <3> QED
      BY <3>1, <3>2
  <2>2. ToSet(s) \subseteq ToSet(u)
    BY <1>1, <1>3, <1>4 DEF ToSet
  <2>3. ToSet(t) \subseteq ToSet(u)
    <3> SUFFICES ASSUME NEW i \in 1 .. n PROVE t[i] \in ToSet(u)
      BY <1>1 DEF ToSet
    <3> QED
      BY <1>3, <1>5 DEF ToSet
  <2> QED
    BY <2>1, <2>2, <2>3
<1>9. \A i \in m + 1 .. m + n : u[i] \in ToSet(t)
  <2> TAKE i \in m + 1 .. m + n
  <2>1. i - m \in 1 .. n /\ m + (i - m) = i
    BY <1>1
  <2> QED
    BY <1>1, <1>5, <2>1 DEF ToSet
<1> QED
  BY <1>2, <1>4, <1>7, <1>8, <1>9 DEF m, n, u

(* d is c with n more blocks mapped, all of them from the free stack.      *)
Allocated(c, n, d) ==
  /\ KvCacheType(d) /\ Accounted(d)
  /\ d.len = c.len /\ d.registry = c.registry /\ d.pool = c.pool
  /\ Len(d.blocks) = Len(c.blocks) + n /\ NumFree(d) = NumFree(c) - n
  /\ \A i \in 1 .. Len(c.blocks) : d.blocks[i] = c.blocks[i]
  /\ \A i \in Len(c.blocks) + 1 .. Len(d.blocks) : d.blocks[i] \notin Cached(c)

LEMMA AllocateAccount ==
  ASSUME NEW c, KvCacheType(c), Accounted(c), NEW n \in 0 .. NumFree(c),
         NEW d, d = AllocateBlocks(c, n)
  PROVE  Allocated(c, n, d)
<1> DEFINE t == TopOfStack(c, n)
           fr == SubSeq(c.free, 1, NumFree(c) - n)
           rc == [b \in Blocks |-> IF b \in ToSet(t) THEN 1 ELSE c.ref_counts[b]]
           bl == c.blocks \o t
<1>1. /\ c.free \in Seq(Blocks) /\ c.ref_counts \in [Blocks -> Nat]
      /\ c.blocks \in Seq(Blocks) /\ c.len \in Nat
      /\ Table(c) \subseteq Blocks /\ ToSet(c.free) \subseteq Blocks
  BY TypeRecounts
<1>2. IsInjective(c.free) /\ IsInjective(c.blocks)
  BY DEF Accounted
<1>3. /\ t \in Seq(Blocks) /\ Len(t) = n /\ IsInjective(t)
      /\ fr \in Seq(Blocks) /\ Len(fr) = Len(c.free) - n /\ IsInjective(fr)
      /\ ToSet(t) \subseteq ToSet(c.free)
      /\ ToSet(fr) = ToSet(c.free) \ ToSet(t)
  <2>1. Splits(c.free, n, t, fr)
    BY DEF TopOfStack, NumFree, Splits
  <2>2. n \in Nat
    BY <1>1, LenProperties DEF NumFree
  <2> HIDE DEF t, fr, rc, bl
  <2> QED
    <3>1. c.free \in Seq(Blocks) /\ IsInjective(c.free)
      BY <1>1, <1>2
    <3>2. Parts(Blocks, c.free, n, t, fr)
      BY ONLY <2>1, <2>2, <3>1, SplitStack
    <3> QED
      BY <3>2 DEF Parts
<1>4. ToSet(c.free) = Blocks \ (Table(c) \cup Cached(c))
  BY DEF Accounted
<1>5. d = [c EXCEPT !.free = fr, !.ref_counts = rc, !.blocks = bl]
  <2>1. c.ref_counts = c.ref_counts /\ d = AllocateBlocks(c, n)
    OBVIOUS
  <2> QED
    BY <2>1 DEF AllocateBlocks
<1> HIDE DEF t, fr
<1>6. /\ bl \in Seq(Blocks) /\ IsInjective(bl)
      /\ ToSet(bl) = ToSet(c.blocks) \cup ToSet(t)
      /\ Len(bl) = Len(c.blocks) + Len(t)
      /\ \A i \in 1 .. Len(c.blocks) : bl[i] = c.blocks[i]
      /\ \A i \in Len(c.blocks) + 1 .. Len(bl) : bl[i] \in ToSet(t)
  <2>1. ToSet(c.blocks) \cap ToSet(t) = {}
    BY <1>3, <1>4 DEF Table
  <2> QED
    BY <1>1, <1>2, <1>3, <2>1, ConcatDistinct
<1> HIDE DEF bl
<1>7. rc \in [Blocks -> Nat]
  BY <1>1
<1>8. /\ \A b \in ToSet(t) : rc[b] = 1
      /\ \A b \in Blocks \ ToSet(t) : rc[b] = c.ref_counts[b]
  BY <1>1, <1>3
<1> HIDE DEF rc
<1>9. /\ d.free = fr /\ d.ref_counts = rc /\ d.blocks = bl
      /\ d.len = c.len /\ d.registry = c.registry /\ d.pool = c.pool
  BY <1>5 DEF KvCacheType
<1>10. KvCacheType(d)
  <2>1. d \in [free : Seq(Blocks), ref_counts : [Blocks -> Nat], blocks : Seq(Blocks),
               len : Nat, registry : {c.registry}, pool : {c.pool}]
    BY <1>3, <1>5, <1>6, <1>7 DEF KvCacheType
  <2> QED
    BY <1>9, <2>1 DEF KvCacheType
<1>11. Table(d) = Table(c) \cup ToSet(t) /\ Cached(d) = Cached(c)
  BY <1>6, <1>9 DEF Table, Cached
<1>12. ToSet(t) \cap (Table(c) \cup Cached(c)) = {} /\ ToSet(t) \subseteq Blocks
  BY <1>1, <1>3, <1>4
<1>13. Accounted(d)
  <2>1. /\ \A p, q \in DOMAIN d.registry : d.registry[p] = d.registry[q] => p = q
        /\ Cached(d) \subseteq Blocks
    BY <1>9, <1>11 DEF Accounted
  <2>2. ToSet(d.free) = Blocks \ (Table(d) \cup Cached(d))
    BY <1>3, <1>4, <1>9, <1>11
  <2>3. /\ \A b \in Table(d) \cap Cached(d) : b \in Table(c) \cap Cached(c) /\ b \in Blocks \ ToSet(t)
        /\ \A b \in Table(d) \ Cached(d) :
             b \in ToSet(t) \/ (b \in Table(c) \ Cached(c) /\ b \in Blocks \ ToSet(t))
        /\ \A b \in Cached(d) \ Table(d) : b \in Cached(c) \ Table(c) /\ b \in Blocks \ ToSet(t)
        /\ \A b \in Blocks \ (Table(d) \cup Cached(d)) :
             b \in Blocks \ (Table(c) \cup Cached(c)) /\ b \in Blocks \ ToSet(t)
    <3>1. Cached(c) \subseteq Blocks
      BY DEF Accounted
    <3> QED
      BY <1>1, <1>11, <1>12, <3>1
  <2>4. /\ \A b \in Table(c) \cap Cached(c) : c.ref_counts[b] = 2
        /\ \A b \in Table(c) \ Cached(c) : c.ref_counts[b] = 1
        /\ \A b \in Cached(c) \ Table(c) : c.ref_counts[b] = 1
        /\ \A b \in Blocks \ (Table(c) \cup Cached(c)) : c.ref_counts[b] = 0
    BY DEF Accounted
  <2>5. /\ \A b \in Table(d) \cap Cached(d) : d.ref_counts[b] = 2
        /\ \A b \in Table(d) \ Cached(d) : d.ref_counts[b] = 1
        /\ \A b \in Cached(d) \ Table(d) : d.ref_counts[b] = 1
        /\ \A b \in Blocks \ (Table(d) \cup Cached(d)) : d.ref_counts[b] = 0
    BY <1>8, <1>9, <2>3, <2>4
  <2> QED
    BY <1>3, <1>6, <1>9, <2>1, <2>2, <2>5 DEF Accounted
<1>14. Len(d.blocks) = Len(c.blocks) + n /\ NumFree(d) = NumFree(c) - n
  BY <1>3, <1>6, <1>9 DEF NumFree
<1> QED
  BY <1>6, <1>9, <1>10, <1>12, <1>13, <1>14 DEF Allocated

-----------------------------------------------------------------------------
(* Paths and matching.                                                     *)
LEMMA PathLength ==
  ASSUME NEW T, NEW tokens \in Seq(T), NEW b \in Nat, (b + 1) * BlockSize <= Len(tokens)
  PROVE  /\ PathOf(tokens, b) \in Seq(T)
         /\ Len(PathOf(tokens, b)) = (b + 1) * BlockSize
         /\ \A i \in 1 .. (b + 1) * BlockSize : PathOf(tokens, b)[i] = tokens[i]
<1>1. PICK k \in Nat : k = (b + 1) * BlockSize
  BY KvCacheAssumption
<1>2. \A i \in 1 .. k : tokens[i] \in T
  BY <1>1, ElementOfSeq, LenProperties
<1>3. /\ SubSeq(tokens, 1, k) \in Seq(T)
      /\ Len(SubSeq(tokens, 1, k)) = IF 1 <= k THEN k - 1 + 1 ELSE 0
      /\ \A i \in 1 .. k - 1 + 1 : SubSeq(tokens, 1, k)[i] = tokens[1 + i - 1]
  BY <1>2, SubSeqProperties
<1>4. k - 1 + 1 = k /\ (~(1 <= k) => k = 0) /\ \A i \in 1 .. k : 1 + i - 1 = i
  OBVIOUS
<1> QED
  BY <1>1, <1>3, <1>4 DEF PathOf

(* A match leaves at least one token of a prompt.                          *)
LEMMA MaxReusableFacts ==
  ASSUME NEW T, NEW tokens \in Seq(T)
  PROVE  /\ MaxReusableBlocks(tokens) \in 0 .. Len(tokens) \div BlockSize
         /\ MaxReusableBlocks(tokens) * BlockSize <= Len(tokens)
         /\ Len(tokens) > 0 => MaxReusableBlocks(tokens) * BlockSize < Len(tokens)
<1>1. PICK n \in Nat : n = Len(tokens)
  BY LenProperties
<1>2. /\ n \div BlockSize \in Nat /\ n % BlockSize \in 0 .. BlockSize - 1
      /\ n = BlockSize * (n \div BlockSize) + (n % BlockSize)
  BY KvCacheAssumption, DivFloor
<1>3. PICK f \in Nat, r \in Nat : f = n \div BlockSize /\ r = n % BlockSize
  BY <1>2
<1>4. n = f * BlockSize + r /\ f * BlockSize \in Nat
  BY KvCacheAssumption, <1>2, <1>3
<1>5. MaxReusableBlocks(tokens) = IF r = 0 /\ f > 0 THEN f - 1 ELSE f
  BY <1>1, <1>3 DEF MaxReusableBlocks
<1>6. CASE r = 0 /\ f > 0
  <2>1. PICK g \in Nat : f = g + 1
    BY <1>6
  <2>2. f * BlockSize = g * BlockSize + BlockSize /\ g * BlockSize \in Nat
    BY KvCacheAssumption, <2>1, TimesOrder
  <2>3. MaxReusableBlocks(tokens) = g
    BY <1>5, <1>6, <2>1
  <2>4. g * BlockSize < n /\ g * BlockSize <= n /\ g \in 0 .. f
    BY KvCacheAssumption, <1>4, <2>1, <2>2
  <2>5. f = Len(tokens) \div BlockSize
    BY <1>1, <1>3
  <2> QED
    BY ONLY <1>1, <2>3, <2>4, <2>5
<1>7. CASE ~(r = 0 /\ f > 0)
  <2>1. MaxReusableBlocks(tokens) = f
    BY <1>5, <1>7
  <2>2. f * BlockSize <= n
    BY <1>4
  <2>3. n > 0 => f * BlockSize < n
    <3>1. CASE r # 0
      BY <1>4, <3>1
    <3>2. CASE f = 0
      BY KvCacheAssumption, <3>2
    <3> QED
      BY <1>7, <3>1, <3>2
  <2> QED
    BY <1>1, <1>3, <2>1, <2>2, <2>3
<1> QED
  BY <1>6, <1>7

LEMMA MatchedFacts ==
  ASSUME NEW c, NEW T, NEW tokens \in Seq(T)
  PROVE  /\ MatchedBlocks(c, tokens) \in 0 .. MaxReusableBlocks(tokens)
         /\ \A b \in 0 .. MatchedBlocks(c, tokens) - 1 : PathOf(tokens, b) \in DOMAIN c.registry
<1> DEFINE M == MaxReusableBlocks(tokens)
           Hit(b) == PathOf(tokens, b) \in DOMAIN c.registry
           Misses == {b \in 0 .. M - 1 : ~Hit(b)}
           Fits(m) == (\A b \in 0 .. m - 1 : Hit(b)) /\ (m < M => ~Hit(m))
<1>1. M \in Nat
  <2>1. Len(tokens) \div BlockSize \in Nat
    BY KvCacheAssumption, LenProperties, DivFloor
  <2> QED
    BY <2>1, MaxReusableFacts
<1>2. MatchedBlocks(c, tokens) = CHOOSE m \in 0 .. M : Fits(m)
  BY DEF MatchedBlocks
<1> HIDE DEF M, Hit
<1>3. \E m \in 0 .. M : Fits(m)
  <2>1. CASE Misses = {}
    <3>1. Fits(M) /\ M \in 0 .. M
      BY <1>1, <2>1
    <3> QED
      BY <3>1
  <2>2. CASE Misses # {}
    <3>1. Misses \subseteq Nat
      BY <1>1
    <3>2. PICK m \in Misses : \A x \in Misses : m <= x
      <4> HIDE DEF Misses
      <4> QED
        BY <2>2, <3>1, LeastNatural
    <3>3. m \in 0 .. M - 1 /\ ~Hit(m)
      BY <3>2
    <3>4. \A b \in 0 .. m - 1 : Hit(b)
      <4> TAKE b \in 0 .. m - 1
      <4>1. b \in 0 .. M - 1 /\ ~(m <= b)
        BY <1>1, <3>3
      <4> QED
        BY <3>2, <4>1
    <3>5. m \in 0 .. M
      BY <1>1, <3>3
    <3> QED
      BY <3>3, <3>4, <3>5
  <2> QED
    BY <2>1, <2>2
<1> DEFINE mb == MatchedBlocks(c, tokens)
<1>4. mb \in 0 .. M /\ Fits(mb)
  <2> HIDE DEF Fits
  <2> QED
    BY <1>2, <1>3
<1> QED
  BY <1>4 DEF M, Hit

(* After a match the table holds the registry's blocks for the matched     *)
(* path, each with one more reference, and no free block was touched.      *)
LEMMA MatchAccount ==
  ASSUME NEW c, KvCacheType(c), Accounted(c), c.blocks = Empty, c.len = 0,
         NEW T, NEW tokens \in Seq(T), NEW d, d = MatchPrefix(c, tokens),
         NEW m, m = MatchedBlocks(c, tokens)
  PROVE  /\ KvCacheType(d) /\ Accounted(d)
         /\ d.free = c.free /\ d.registry = c.registry /\ d.pool = c.pool
         /\ Len(d.blocks) = m /\ d.len = m * BlockSize
         /\ \A i \in 1 .. m : /\ PathOf(tokens, i - 1) \in DOMAIN c.registry
                              /\ d.blocks[i] = c.registry[PathOf(tokens, i - 1)]
<1> DEFINE s == [i \in 1 .. m |-> c.registry[PathOf(tokens, i - 1)]]
           x == FoldLeft(Incref, c, s)
           n == Len(tokens)
<1>1. /\ m \in Nat /\ m <= n \div BlockSize
      /\ \A b \in 0 .. m - 1 : PathOf(tokens, b) \in DOMAIN c.registry
  <2>1. /\ m \in 0 .. MaxReusableBlocks(tokens)
        /\ \A b \in 0 .. m - 1 : PathOf(tokens, b) \in DOMAIN c.registry
    BY MatchedFacts
  <2>2. MaxReusableBlocks(tokens) \in 0 .. n \div BlockSize
    BY MaxReusableFacts
  <2>3. n \div BlockSize \in Nat
    BY KvCacheAssumption, LenProperties, DivFloor
  <2> HIDE DEF n
  <2> QED
    BY <2>1, <2>2, <2>3
<1>2. \A i \in 1 .. m : /\ i - 1 \in Nat /\ i = (i - 1) + 1
                        /\ PathOf(tokens, i - 1) \in DOMAIN c.registry
                        /\ Len(PathOf(tokens, i - 1)) = i * BlockSize
  <2> TAKE i \in 1 .. m
  <2>1. i - 1 \in 0 .. m - 1 /\ (i - 1) + 1 = i /\ i \in Nat
    BY <1>1
  <2>2. i <= n \div BlockSize
    <3>1. n \div BlockSize \in Nat
      BY KvCacheAssumption, LenProperties, DivFloor
    <3> HIDE DEF n
    <3> QED
      BY <1>1, <3>1
  <2>3. i * BlockSize <= n
    BY KvCacheAssumption, <2>1, <2>2, LenProperties, DivBound
  <2>4. Len(PathOf(tokens, i - 1)) = i * BlockSize
    BY <2>1, <2>3, PathLength
  <2> QED
    BY <1>1, <2>1, <2>4
<1> HIDE DEF n
<1>3. Cached(c) \subseteq Blocks /\ \A p, q \in DOMAIN c.registry : c.registry[p] = c.registry[q] => p = q
  BY DEF Accounted
<1>4. \A i \in 1 .. m : s[i] = c.registry[PathOf(tokens, i - 1)] /\ s[i] \in Cached(c)
  BY <1>2 DEF Cached
<1>5. s \in [1 .. m -> Blocks]
  BY <1>3, <1>4
<1>6. s \in Seq(Blocks) /\ Len(s) = m /\ DOMAIN s = 1 .. m
  <2>1. s \in Seq(Blocks)
    <3> HIDE DEF s
    <3> QED
      BY <1>1, <1>5, SeqDef
  <2>2. DOMAIN s = 1 .. m /\ DOMAIN s = 1 .. Len(s) /\ Len(s) \in Nat
    BY <2>1, LenProperties
  <2> HIDE DEF s
  <2> QED
    BY <1>1, <2>1, <2>2
<1> HIDE DEF s
<1>7. IsInjective(s)
  <2> SUFFICES ASSUME NEW i \in 1 .. m, NEW j \in 1 .. m, s[i] = s[j] PROVE i = j
    BY <1>6 DEF IsInjective
  <2>1. PathOf(tokens, i - 1) = PathOf(tokens, j - 1)
    BY <1>2, <1>3, <1>4
  <2>2. i * BlockSize = j * BlockSize
    BY <1>2, <2>1
  <2> QED
    BY KvCacheAssumption, <1>1, <2>2, TimesOrder
<1>8. /\ c \in Recounts(c)
      /\ c.free \in Seq(Blocks) /\ c.ref_counts \in [Blocks -> Nat]
  BY TypeRecounts
<1>9. /\ x \in Recounts(c)
      /\ x.free = c.free
      /\ \A b \in ToSet(s) : x.ref_counts[b] = c.ref_counts[b] + 1
      /\ \A b \in Blocks \ ToSet(s) : x.ref_counts[b] = c.ref_counts[b]
  BY <1>6, <1>7, <1>8, IncrefEach
<1>10. d = [x EXCEPT !.blocks = x.blocks \o s, !.len = x.len + Len(s) * BlockSize]
  BY DEF MatchPrefix, s
<1> HIDE DEF x
<1>11. x.blocks \o s = s /\ x.len + Len(s) * BlockSize = m * BlockSize /\ m * BlockSize \in Nat
  <2>1. x.blocks = << >> /\ x.len = 0
    BY <1>9 DEF Recounts, Empty
  <2>2. << >> \o s = s
    BY <1>6, ConcatEmptySeq
  <2>3. m * BlockSize \in Nat
    BY KvCacheAssumption, <1>1, TimesOrder
  <2> QED
    BY <1>6, <2>1, <2>2, <2>3
<1>12. d = [x EXCEPT !.blocks = s, !.len = m * BlockSize]
  BY <1>10, <1>11
<1>13. x.ref_counts \in [Blocks -> Nat]
  <2>1. x.ref_counts \in [Blocks -> Int]
    BY <1>9 DEF Recounts
  <2>2. \A b \in Blocks : x.ref_counts[b] \in Nat
    BY <1>8, <1>9
  <2> QED
    BY <2>1, <2>2
<1>14. /\ d.free = c.free /\ d.ref_counts = x.ref_counts /\ d.blocks = s
       /\ d.len = m * BlockSize /\ d.registry = c.registry /\ d.pool = c.pool
  BY <1>9, <1>12 DEF Recounts
<1>15. KvCacheType(d)
  <2>1. d \in [free : Seq(Blocks), ref_counts : [Blocks -> Nat], blocks : Seq(Blocks),
               len : Nat, registry : {c.registry}, pool : {c.pool}]
    BY <1>6, <1>9, <1>11, <1>12, <1>13 DEF Recounts
  <2> QED
    BY <1>14, <2>1 DEF KvCacheType
<1>16. /\ Table(c) = {} /\ Table(d) = ToSet(s) /\ Cached(d) = Cached(c)
       /\ ToSet(s) \subseteq Cached(c)
  <2>1. Table(c) = {}
    BY DEF Table, ToSet, Empty
  <2>2. ToSet(s) \subseteq Cached(c)
    BY <1>4, <1>6 DEF ToSet
  <2> QED
    BY <1>14, <2>1, <2>2 DEF Table, Cached
<1>17. Accounted(d)
  <2>1. /\ ToSet(c.free) = Blocks \ (Table(c) \cup Cached(c))
        /\ \A b \in Cached(c) \ Table(c) : c.ref_counts[b] = 1
        /\ \A b \in Blocks \ (Table(c) \cup Cached(c)) : c.ref_counts[b] = 0
        /\ IsInjective(c.free)
    BY DEF Accounted
  <2>2. /\ ToSet(d.free) = Blocks \ (Table(d) \cup Cached(d))
        /\ IsInjective(d.free) /\ IsInjective(d.blocks)
        /\ \A p, q \in DOMAIN d.registry : d.registry[p] = d.registry[q] => p = q
        /\ Cached(d) \subseteq Blocks
    BY <1>3, <1>7, <1>14, <1>16, <2>1
  <2>3. /\ \A b \in ToSet(s) : d.ref_counts[b] = 2
        /\ \A b \in Cached(c) \ ToSet(s) : d.ref_counts[b] = 1
        /\ \A b \in Blocks \ Cached(c) : d.ref_counts[b] = 0
    <3>1. \A b \in ToSet(s) : c.ref_counts[b] = 1
      BY <1>16, <2>1
    <3>2. \A b \in ToSet(s) : d.ref_counts[b] = 1 + 1
      BY <1>9, <1>14, <3>1
    <3> QED
      BY <1>3, <1>9, <1>14, <1>16, <2>1, <3>2
  <2> QED
    BY <1>16, <2>2, <2>3 DEF Accounted
<1>18. Len(d.blocks) = m
  BY <1>6, <1>14
<1>19. \A i \in 1 .. m : /\ PathOf(tokens, i - 1) \in DOMAIN c.registry
                         /\ d.blocks[i] = c.registry[PathOf(tokens, i - 1)]
  BY <1>2, <1>4, <1>14
<1> QED
  BY <1>14, <1>15, <1>17, <1>18, <1>19

-----------------------------------------------------------------------------
(* Registering.                                                            *)
IsRegistry(r) == r \in [DOMAIN r -> Blocks]

(* One path is registered for the block at its place in the table: a block *)
(* that the registry serves for no path yet, if the path is new.           *)
LEMMA RegisterOne ==
  ASSUME NEW c, KvCacheType(c), Accounted(c), IsRegistry(c.registry),
         NEW i \in 1 .. Len(c.blocks), NEW path, Len(path) \div BlockSize = i,
         path \notin DOMAIN c.registry => c.blocks[i] \notin Cached(c),
         NEW d, d = RegisterBlock(c, path)
  PROVE  /\ KvCacheType(d) /\ Accounted(d) /\ IsRegistry(d.registry)
         /\ d.free = c.free /\ d.blocks = c.blocks /\ d.len = c.len /\ d.pool = c.pool
         /\ DOMAIN d.registry = DOMAIN c.registry \cup {path}
         /\ Cached(d) \subseteq Cached(c) \cup {c.blocks[i]}
<1> DEFINE b == c.blocks[i]
           reg == [p \in DOMAIN c.registry \cup {path} |-> IF p = path THEN b ELSE c.registry[p]]
<1>1. /\ c \in Recounts(c)
      /\ c.free \in Seq(Blocks) /\ c.ref_counts \in [Blocks -> Nat]
      /\ c.blocks \in Seq(Blocks) /\ c.len \in Nat
  BY TypeRecounts
<1>2. b \in Blocks /\ b \in Table(c)
  BY <1>1, ElementOfSeq, LenProperties DEF Table, ToSet
<1>3. CASE path \in DOMAIN c.registry
  <2>1. d = c
    BY <1>3 DEF RegisterBlock
  <2>2. DOMAIN c.registry = DOMAIN c.registry \cup {path}
    BY <1>3
  <2> QED
    BY <2>1, <2>2
<1>4. CASE path \notin DOMAIN c.registry
  <2>1. BlockAt(c, Len(path) \div BlockSize - 1) = b
    <3>1. (Len(path) \div BlockSize - 1) + 1 = i
      OBVIOUS
    <3> QED
      BY <3>1 DEF BlockAt
  <2> DEFINE x == Incref(c, b)
  <2>2. /\ x \in Recounts(c)
        /\ x.ref_counts = [c.ref_counts EXCEPT ![b] = @ + 1]
        /\ x.free = c.free
    BY <1>1, <1>2, IncrefFields
  <2>3. d = [x EXCEPT !.registry = [p \in DOMAIN x.registry \cup {path} |->
                                      IF p = path THEN b ELSE x.registry[p]]]
    BY <1>4, <2>1 DEF RegisterBlock
  <2>4. x.registry = c.registry
    BY <2>2 DEF Recounts
  <2> HIDE DEF b, x
  <2>5. d = [x EXCEPT !.registry = reg]
    BY <2>3, <2>4
  <2>6. DOMAIN reg = DOMAIN c.registry \cup {path}
    OBVIOUS
  <2>7. /\ reg[path] = b
        /\ \A p \in DOMAIN c.registry : reg[p] = c.registry[p]
    BY <1>4
  <2>8. IsRegistry(reg)
    <3>1. \A p \in DOMAIN c.registry : c.registry[p] \in Blocks
      BY DEF IsRegistry
    <3> QED
      BY <1>2, <3>1 DEF IsRegistry
  <2> HIDE DEF reg
  <2>9. x.ref_counts \in [Blocks -> Nat]
    BY <1>1, <1>2, <2>2
  <2>10. /\ d.free = c.free /\ d.ref_counts = x.ref_counts /\ d.blocks = c.blocks
         /\ d.len = c.len /\ d.registry = reg /\ d.pool = c.pool
    BY <2>2, <2>5 DEF Recounts
  <2>11. KvCacheType(d)
    <3>1. d \in [free : Seq(Blocks), ref_counts : [Blocks -> Nat], blocks : Seq(Blocks),
                 len : Nat, registry : {reg}, pool : {c.pool}]
      BY <1>1, <2>2, <2>5, <2>9 DEF Recounts
    <3> QED
      BY <2>10, <3>1 DEF KvCacheType
  <2>12. Table(d) = Table(c) /\ Cached(d) = Cached(c) \cup {b}
    BY <2>6, <2>7, <2>10 DEF Table, Cached
  <2>13. b \notin Cached(c)
    BY <1>4 DEF b
  <2>14. Accounted(d)
    <3>1. /\ IsInjective(c.free) /\ IsInjective(c.blocks)
          /\ Cached(c) \subseteq Blocks
          /\ ToSet(c.free) = Blocks \ (Table(c) \cup Cached(c))
          /\ \A p, q \in DOMAIN c.registry : c.registry[p] = c.registry[q] => p = q
      BY DEF Accounted
    <3>2. /\ \A e \in Table(c) \cap Cached(c) : c.ref_counts[e] = 2
          /\ \A e \in Table(c) \ Cached(c) : c.ref_counts[e] = 1
          /\ \A e \in Cached(c) \ Table(c) : c.ref_counts[e] = 1
          /\ \A e \in Blocks \ (Table(c) \cup Cached(c)) : c.ref_counts[e] = 0
      BY DEF Accounted
    <3>3. Table(c) \subseteq Blocks
      BY TypeRecounts
    <3>4. /\ Cached(d) \subseteq Blocks
          /\ ToSet(d.free) = Blocks \ (Table(d) \cup Cached(d))
      BY <1>2, <2>10, <2>12, <3>1
    <3>5. \A p, q \in DOMAIN d.registry : d.registry[p] = d.registry[q] => p = q
      <4>1. \A p \in DOMAIN c.registry : c.registry[p] # b
        BY <2>13 DEF Cached
      <4> QED
        BY <2>6, <2>7, <2>10, <3>1, <4>1
    <3>6. d.ref_counts[b] = 2
      <4>1. c.ref_counts[b] = 1
        BY <1>2, <2>13, <3>2
      <4>2. d.ref_counts[b] = 1 + 1
        BY <1>1, <1>2, <2>2, <2>10, <4>1
      <4> QED
        BY <4>2
    <3>7. \A e \in Blocks \ {b} : d.ref_counts[e] = c.ref_counts[e]
      BY <1>1, <2>2, <2>10
    <3>8. /\ \A e \in Table(d) \cap Cached(d) : d.ref_counts[e] = 2
          /\ \A e \in Table(d) \ Cached(d) : d.ref_counts[e] = 1
          /\ \A e \in Cached(d) \ Table(d) : d.ref_counts[e] = 1
          /\ \A e \in Blocks \ (Table(d) \cup Cached(d)) : d.ref_counts[e] = 0
      BY <1>2, <2>12, <3>1, <3>2, <3>3, <3>6, <3>7
    <3> QED
      BY <2>10, <3>1, <3>4, <3>5, <3>8 DEF Accounted
  <2> QED
    BY <2>6, <2>8, <2>10, <2>11, <2>12, <2>14 DEF b
<1> QED
  BY <1>3, <1>4

(* The caches that registering paths of D can make of c.                   *)
Registered(c, D) ==
  [free : {c.free}, ref_counts : [Blocks -> Int], blocks : {c.blocks}, len : {c.len},
   registry : UNION {[E -> Blocks] : E \in SUBSET D}, pool : {c.pool}]

LEMMA RegisterStays ==
  ASSUME NEW c, c.blocks \in Seq(Blocks), NEW D, NEW path \in D,
         Len(path) \div BlockSize \in 1 .. Len(c.blocks), NEW d \in Registered(c, D)
  PROVE  RegisterBlock(d, path) \in Registered(c, D)
<1> DEFINE b == BlockAt(d, Len(path) \div BlockSize - 1)
           reg == [p \in DOMAIN d.registry \cup {path} |-> IF p = path THEN b ELSE d.registry[p]]
           rc == [d.ref_counts EXCEPT ![b] = @ + 1]
<1>1. b \in Blocks
  <2>1. PICK i \in 1 .. Len(c.blocks) : i = Len(path) \div BlockSize
    OBVIOUS
  <2>2. (i - 1) + 1 = i /\ c.blocks[i] \in Blocks
    BY LenProperties, ElementOfSeq
  <2>3. d.blocks = c.blocks
    BY DEF Registered
  <2> QED
    BY <2>1, <2>2, <2>3 DEF BlockAt
<1> HIDE DEF b
<1>2. rc \in [Blocks -> Int]
  BY <1>1 DEF Registered
<1>3. PICK E \in SUBSET D : d.registry \in [E -> Blocks]
  BY DEF Registered
<1>4. reg \in [E \cup {path} -> Blocks]
  BY <1>1, <1>3
<1>5. reg \in UNION {[F -> Blocks] : F \in SUBSET D}
  <2>1. E \cup {path} \in SUBSET D
    BY <1>3
  <2> HIDE DEF reg
  <2> QED
    BY <1>4, <2>1
<1>6. RegisterBlock(d, path) =
        IF path \in DOMAIN d.registry THEN d
        ELSE [d EXCEPT !.ref_counts = rc, !.registry = reg]
  <2>1. Incref(d, b) = [d EXCEPT !.ref_counts = rc]
    BY DEF Incref
  <2>2. Incref(d, b).registry = d.registry
    BY <2>1 DEF Registered
  <2>3. RegisterBlock(d, path) =
          IF path \in DOMAIN d.registry THEN d
          ELSE [Incref(d, b) EXCEPT !.registry = reg]
    BY <2>2 DEF RegisterBlock, b
  <2> HIDE DEF rc, reg
  <2> QED
    BY <2>1, <2>3 DEF Registered
<1> HIDE DEF rc, reg
<1> QED
  BY <1>2, <1>5, <1>6 DEF Registered

(* The steps of a fold of RegisterBlock along s.                           *)
RegisterSteps(tr, c, s, n) ==
  /\ tr[0] = c
  /\ \A i \in 1 .. n : tr[i] = RegisterBlock(tr[i - 1], s[i])
  /\ FoldLeft(RegisterBlock, c, s) = tr[n]

LEMMA RegisterTrace ==
  ASSUME NEW c, NEW D, c \in Registered(c, D), c.blocks \in Seq(Blocks),
         NEW n \in Nat, NEW s \in [1 .. n -> D],
         \A i \in 1 .. n : Len(s[i]) \div BlockSize \in 1 .. Len(c.blocks)
  PROVE  \E tr : RegisterSteps(tr, c, s, n)
<1> DEFINE V == Registered(c, D)
           op == [x \in V \X (1 .. n) |-> RegisterBlock(x[1], s[x[2]])]
           IsIt(g) == g = [t \in SUBSET (1 .. n) |->
                            IF t = {} THEN c ELSE RegisterBlock(g[t \ {Max(t)}], s[Max(t)])]
           h == CHOOSE g : IsIt(g)
<1>1. DOMAIN s = 1 .. n
  OBVIOUS
<1>2. \A d \in V, i \in 1 .. n : RegisterBlock(d, s[i]) \in V
  BY RegisterStays
<1> HIDE DEF V
<1>3. op \in [V \X (1 .. n) -> V] /\ c \in V
  BY <1>2 DEF V
<1>4. \E g : IsIt(g)
  <2>1. PICK g : IsFold(g, op, c, V, n)
    <3> HIDE DEF op, IsIt
    <3> QED
      BY <1>1, <1>3, FoldExists
  <2>2. \A t \in SUBSET (1 .. n) : t # {} =>
          Max(t) \in 1 .. n /\ <<g[t \ {Max(t)}], Max(t)>> \in V \X (1 .. n)
    BY <1>1, <2>1, MaxIsMember DEF IsFold
  <2>3. IsIt(g)
    BY <2>1, <2>2 DEF IsFold
  <2> HIDE DEF IsIt
  <2> QED
    BY <2>3
<1>5. IsIt(h)
  <2> HIDE DEF IsIt
  <2> QED
    BY <1>4
<1>6. FoldLeft(RegisterBlock, c, s) = h[1 .. n]
  BY <1>1 DEF FoldLeft, MapThenFoldSet
<1> HIDE DEF h
<1>7. PICK tr : IsTrace(tr, h, n)
  BY <1>1, TraceExists
<1>8. tr[0] = c
  BY <1>5, <1>7 DEF IsTrace
<1>9. ASSUME NEW i \in 1 .. n PROVE tr[i] = RegisterBlock(tr[i - 1], s[i])
  <2>1. h[1 .. i] = RegisterBlock(h[(1 .. i) \ {Max(1 .. i)}], s[Max(1 .. i)])
    BY <1>5, <1>7 DEF IsTrace
  <2> QED
    BY <1>7, <2>1 DEF IsTrace
<1> QED
  BY <1>6, <1>7, <1>8, <1>9 DEF IsTrace, RegisterSteps

(* The paths of the full blocks of tokens.                                 *)
PathsOf(tokens) == {PathOf(tokens, i - 1) : i \in 1 .. Len(tokens) \div BlockSize}

(* Registering a prefix whose blocks are all mapped, when a mapped block   *)
(* that is cached already is cached for the path it is mapped at.          *)
LEMMA RegisterAccount ==
  ASSUME NEW c, KvCacheType(c), Accounted(c), IsRegistry(c.registry),
         NEW T, NEW tokens \in Seq(T), Len(tokens) \div BlockSize <= Len(c.blocks),
         \A i \in 1 .. Len(tokens) \div BlockSize :
           c.blocks[i] \in Cached(c) => PathOf(tokens, i - 1) \in DOMAIN c.registry,
         NEW d, d = RegisterPrefix(c, tokens)
  PROVE  /\ KvCacheType(d) /\ Accounted(d) /\ IsRegistry(d.registry)
         /\ d.free = c.free /\ d.blocks = c.blocks /\ d.len = c.len /\ d.pool = c.pool
         /\ DOMAIN d.registry = DOMAIN c.registry \cup PathsOf(tokens)
         /\ Cached(d) \subseteq
              Cached(c) \cup {c.blocks[i] : i \in 1 .. Len(tokens) \div BlockSize}
<1> DEFINE n == Len(tokens) \div BlockSize
           s == [i \in 1 .. n |-> PathOf(tokens, i - 1)]
           Done(k) == {s[i] : i \in 1 .. k}
           D == DOMAIN c.registry \cup Done(n)
           P(x, k) ==
             /\ KvCacheType(x) /\ Accounted(x) /\ IsRegistry(x.registry)
             /\ x.free = c.free /\ x.blocks = c.blocks /\ x.len = c.len /\ x.pool = c.pool
             /\ DOMAIN x.registry = DOMAIN c.registry \cup Done(k)
             /\ Cached(x) \subseteq Cached(c) \cup {c.blocks[i] : i \in 1 .. k}
<1>1. n \in Nat /\ Len(tokens) \in Nat /\ Len(c.blocks) \in Nat /\ n <= Len(c.blocks)
  BY KvCacheAssumption, DivFloor, LenProperties, TypeRecounts
<1>2. \A i \in 1 .. n : /\ i \in 1 .. Len(c.blocks)
                        /\ Len(PathOf(tokens, i - 1)) \div BlockSize = i
  <2> TAKE i \in 1 .. n
  <2>1. i - 1 \in Nat /\ (i - 1) + 1 = i /\ i \in Nat /\ i \in 1 .. Len(c.blocks)
    <3> HIDE DEF n
    <3> QED
      BY <1>1
  <2>2. i <= n
    BY <1>1
  <2>3. i * BlockSize <= Len(tokens)
    BY KvCacheAssumption, <1>1, <2>1, <2>2, DivBound
  <2>4. Len(PathOf(tokens, i - 1)) = i * BlockSize
    BY <2>1, <2>3, PathLength
  <2> QED
    BY KvCacheAssumption, <2>1, <2>4, DivOfTimes
<1>3. \A i \in 1 .. n : c.blocks[i] \in Cached(c) => PathOf(tokens, i - 1) \in DOMAIN c.registry
  OBVIOUS
<1>4. d = FoldLeft(RegisterBlock, c, s)
  BY DEF RegisterPrefix
<1>5. Done(n) = PathsOf(tokens)
  BY DEF PathsOf
<1> HIDE DEF n
<1>6. c \in Registered(c, D) /\ c.blocks \in Seq(Blocks)
  <2>1. /\ c.free \in Seq(Blocks) /\ c.ref_counts \in [Blocks -> Nat]
        /\ c.blocks \in Seq(Blocks) /\ c.len \in Nat
    BY TypeRecounts
  <2>2. c.registry \in UNION {[E -> Blocks] : E \in SUBSET D}
    BY DEF IsRegistry
  <2>3. c.ref_counts \in [Blocks -> Int]
    BY <2>1
  <2> HIDE DEF D
  <2> QED
    BY <2>1, <2>2, <2>3 DEF KvCacheType, Registered
<1>7. s \in [1 .. n -> D] /\ \A i \in 1 .. n : s[i] = PathOf(tokens, i - 1)
  OBVIOUS
<1> HIDE DEF s
<1>8. PICK tr : RegisterSteps(tr, c, s, n)
  <2>1. \A i \in 1 .. n : Len(s[i]) \div BlockSize \in 1 .. Len(c.blocks)
    BY <1>2, <1>7
  <2>2. n \in Nat /\ s \in [1 .. n -> D]
    BY <1>1, <1>7
  <2> HIDE DEF D, P
  <2> QED
    BY <1>6, <2>1, <2>2, RegisterTrace
<1>9. P(tr[0], 0)
  <2>1. Done(0) = {} /\ {c.blocks[i] : i \in 1 .. 0} = {}
    OBVIOUS
  <2> QED
    BY <1>8, <2>1 DEF RegisterSteps
<1>10. ASSUME NEW k \in Nat, k + 1 <= n, P(tr[k], k) PROVE P(tr[k + 1], k + 1)
  <2> DEFINE i == k + 1
             x == tr[k]
             y == tr[i]
  <2>1. /\ i \in 1 .. n /\ 1 .. k \subseteq 1 .. n /\ i \notin 1 .. k
        /\ 1 .. i = (1 .. k) \cup {i}
    BY <1>1, <1>10
  <2>2. y = RegisterBlock(x, s[i])
    <3>1. (k + 1) - 1 = k
      OBVIOUS
    <3> QED
      BY <1>8, <2>1, <3>1 DEF RegisterSteps
  <2> HIDE DEF i, x, y
  <2>3. /\ KvCacheType(x) /\ Accounted(x) /\ IsRegistry(x.registry)
        /\ x.free = c.free /\ x.blocks = c.blocks /\ x.len = c.len /\ x.pool = c.pool
        /\ DOMAIN x.registry = DOMAIN c.registry \cup Done(k)
        /\ Cached(x) \subseteq Cached(c) \cup {c.blocks[j] : j \in 1 .. k}
    BY <1>10 DEF x
  <2>4. i \in 1 .. Len(x.blocks) /\ Len(s[i]) \div BlockSize = i
    BY <1>2, <1>7, <2>1, <2>3
  <2>5. s[i] \notin DOMAIN x.registry => x.blocks[i] \notin Cached(x)
    <3> SUFFICES ASSUME x.blocks[i] \in Cached(x) PROVE s[i] \in DOMAIN x.registry
      OBVIOUS
    <3>1. CASE c.blocks[i] \in Cached(c)
      BY <1>3, <1>7, <2>1, <2>3, <3>1
    <3>2. CASE \E j \in 1 .. k : c.blocks[i] = c.blocks[j]
      <4>1. PICK j \in 1 .. k : c.blocks[i] = c.blocks[j]
        BY <3>2
      <4>2. i \in DOMAIN c.blocks /\ j \in DOMAIN c.blocks /\ IsInjective(c.blocks)
        <5>1. j \in 1 .. n
          BY <2>1
        <5> QED
          BY <1>2, <1>6, <2>1, <5>1, LenProperties DEF Accounted
      <4>3. i = j
        BY <4>1, <4>2 DEF IsInjective
      <4> QED
        BY <2>1, <4>3
    <3> QED
      BY <2>3, <3>1, <3>2
  <2>6. /\ KvCacheType(y) /\ Accounted(y) /\ IsRegistry(y.registry)
        /\ y.free = x.free /\ y.blocks = x.blocks /\ y.len = x.len /\ y.pool = x.pool
        /\ DOMAIN y.registry = DOMAIN x.registry \cup {s[i]}
        /\ Cached(y) \subseteq Cached(x) \cup {x.blocks[i]}
    <3> HIDE DEF P, D, Done
    <3> QED
      BY <2>2, <2>3, <2>4, <2>5, RegisterOne
  <2>7. Done(i) = Done(k) \cup {s[i]}
    BY <2>1
  <2>8. {c.blocks[j] : j \in 1 .. i} = {c.blocks[j] : j \in 1 .. k} \cup {c.blocks[i]}
    BY <2>1
  <2>9. DOMAIN y.registry = DOMAIN c.registry \cup Done(i)
    <3> HIDE DEF Done
    <3> QED
      BY <2>3, <2>6, <2>7
  <2>10. Cached(y) \subseteq Cached(c) \cup {c.blocks[j] : j \in 1 .. i}
    BY <2>3, <2>6, <2>8
  <2>11. P(y, i)
    <3> HIDE DEF Done
    <3> QED
      BY <2>3, <2>6, <2>9, <2>10
  <2> HIDE DEF P
  <2> QED
    BY <2>11 DEF i, y
<1> HIDE DEF P
<1> DEFINE S == {k \in Nat : k <= n => P(tr[k], k)}
<1>11. 0 \in S
  BY <1>9
<1>12. ASSUME NEW k \in Nat, k \in S PROVE k + 1 \in S
  BY <1>1, <1>10, <1>12
<1>13. n \in S
  <2> HIDE DEF S
  <2> QED
    BY <1>1, <1>11, <1>12, NatSetInduction
<1>14. P(d, n)
  BY <1>1, <1>4, <1>8, <1>13 DEF RegisterSteps
<1> QED
  BY <1>5, <1>14 DEF P, n

-----------------------------------------------------------------------------
(* The account reads neither what the pool holds nor the live length.      *)
LEMMA PoolIrrelevant ==
  ASSUME NEW c, KvCacheType(c), Accounted(c), NEW p, NEW d, d = [c EXCEPT !.pool = p]
  PROVE  /\ KvCacheType(d) /\ Accounted(d)
         /\ d.free = c.free /\ d.blocks = c.blocks /\ d.len = c.len
         /\ d.registry = c.registry
<1>1. /\ d.free = c.free /\ d.ref_counts = c.ref_counts /\ d.blocks = c.blocks
      /\ d.len = c.len /\ d.registry = c.registry
  BY DEF KvCacheType
<1>2. KvCacheType(d)
  BY DEF KvCacheType
<1>3. Accounted(d)
  BY <1>1 DEF Accounted, Table, Cached
<1> QED
  BY <1>1, <1>2, <1>3

LEMMA LenIrrelevant ==
  ASSUME NEW c, KvCacheType(c), Accounted(c), NEW n \in Nat, NEW d, d = [c EXCEPT !.len = n]
  PROVE  /\ KvCacheType(d) /\ Accounted(d)
         /\ d.free = c.free /\ d.blocks = c.blocks /\ d.len = n
         /\ d.registry = c.registry /\ d.pool = c.pool
<1>1. /\ d.free = c.free /\ d.ref_counts = c.ref_counts /\ d.blocks = c.blocks
      /\ d.len = n /\ d.registry = c.registry /\ d.pool = c.pool
  BY DEF KvCacheType
<1>2. KvCacheType(d)
  BY DEF KvCacheType
<1>3. Accounted(d)
  BY <1>1 DEF Accounted, Table, Cached
<1> QED
  BY <1>1, <1>2, <1>3

(* How many blocks are free is how many are neither mapped nor cached.     *)
LEMMA DistinctLength ==
  ASSUME NEW S, NEW s \in Seq(S), IsInjective(s)
  PROVE  IsFiniteSet(ToSet(s)) /\ Cardinality(ToSet(s)) = Len(s)
<1>1. PICK n \in Nat : n = Len(s)
  BY LenProperties
<1>2. DOMAIN s = 1 .. n /\ s \in [1 .. n -> S]
  BY <1>1, LenProperties
<1>3. s \in Surjection(1 .. n, ToSet(s)) /\ s \in Injection(1 .. n, ToSet(s))
  <2>1. s \in [1 .. n -> ToSet(s)] /\ \A t \in ToSet(s) : \E i \in 1 .. n : s[i] = t
    BY <1>2 DEF ToSet
  <2> QED
    BY <1>2, <2>1 DEF Surjection, Injection, IsInjective
<1>4. IsFiniteSet(1 .. n) /\ Cardinality(1 .. n) = n
  BY FS_Interval
<1> QED
  BY <1>1, <1>3, <1>4, FS_Surjection

LEMMA SameFree ==
  ASSUME NEW c, KvCacheType(c), Accounted(c), Table(c) \subseteq Cached(c),
         NEW d, KvCacheType(d), Accounted(d), Table(d) \subseteq Cached(d),
         Cached(c) = Cached(d)
  PROVE  NumFree(c) = NumFree(d)
<1>1. c.free \in Seq(Blocks) /\ d.free \in Seq(Blocks)
  BY TypeRecounts
<1>2. ToSet(c.free) = ToSet(d.free) /\ IsInjective(c.free) /\ IsInjective(d.free)
  BY DEF Accounted
<1> QED
  BY <1>1, <1>2, DistinctLength DEF NumFree

-----------------------------------------------------------------------------
(* A fresh match for a prompt, after whatever was mapped was released.     *)
FreshMatch(c, tokens, d) ==
  /\ KvCacheType(d) /\ Accounted(d)
  /\ d.registry = c.registry /\ d.pool = c.pool
  /\ Len(d.blocks) \in 0 .. MaxReusableBlocks(tokens)
  /\ Len(d.blocks) = MatchedBlocks(c, tokens)
  /\ d.len = Len(d.blocks) * BlockSize
  /\ \A i \in 1 .. Len(d.blocks) : PathOf(tokens, i - 1) \in DOMAIN c.registry
  /\ Table(d) \subseteq Cached(d)

LEMMA FreshAccount ==
  ASSUME NEW c, KvCacheType(c), Accounted(c), NEW T, NEW tokens \in Seq(T)
  PROVE  FreshMatch(c, tokens, MatchPrefix(ResetSequence(c), tokens))
<1> DEFINE r == ResetSequence(c)
           d == MatchPrefix(r, tokens)
           m == MatchedBlocks(r, tokens)
<1>1. /\ KvCacheType(r) /\ Accounted(r) /\ r.blocks = Empty /\ r.len = 0
      /\ r.registry = c.registry /\ r.pool = c.pool
  BY ResetAccount
<1> HIDE DEF r
<1>2. /\ KvCacheType(d) /\ Accounted(d)
      /\ d.free = r.free /\ d.registry = r.registry /\ d.pool = r.pool
      /\ Len(d.blocks) = m /\ d.len = m * BlockSize
      /\ \A i \in 1 .. m : /\ PathOf(tokens, i - 1) \in DOMAIN r.registry
                           /\ d.blocks[i] = r.registry[PathOf(tokens, i - 1)]
  BY <1>1, MatchAccount
<1>3. m \in 0 .. MaxReusableBlocks(tokens)
  BY MatchedFacts
<1>4. m = MatchedBlocks(c, tokens)
  BY <1>1 DEF MatchedBlocks
<1> HIDE DEF d, m
<1>5. Table(d) \subseteq Cached(d)
  <2>1. d.blocks \in Seq(Blocks)
    BY <1>2, TypeRecounts
  <2>2. DOMAIN d.blocks = 1 .. m
    BY <1>2, <2>1, LenProperties
  <2> QED
    BY <1>2, <2>2 DEF Table, Cached, ToSet
<1> QED
  BY <1>1, <1>2, <1>3, <1>4, <1>5 DEF FreshMatch, d, r

(* Reserving n more positions when the cache has room for them.            *)
LEMMA NeededFacts ==
  ASSUME NEW c, KvCacheType(c), NEW n \in Nat
  PROVE  /\ BlocksNeeded(c, n) \in Nat
         /\ (Len(c.blocks) + BlocksNeeded(c, n)) * BlockSize >= c.len + n
<1>1. c.len \in Nat /\ Len(c.blocks) \in Nat
  BY TypeRecounts, LenProperties
<1>2. PICK cap \in Nat, e \in Nat : cap = Len(c.blocks) * BlockSize /\ e = c.len + n
  BY <1>1, KvCacheAssumption, TimesOrder
<1>3. BlocksNeeded(c, n) = IF e > cap THEN CeilDiv(e - cap, BlockSize) ELSE 0
  BY <1>2 DEF BlocksNeeded, TableCapacity
<1>4. CASE e > cap
  <2>1. PICK a \in Nat : a = e - cap
    BY <1>4
  <2>2. PICK k \in Nat : k = CeilDiv(a, BlockSize)
    BY KvCacheAssumption, CeilBound DEF CeilDiv
  <2>3. k * BlockSize >= a /\ k * BlockSize \in Nat
    BY KvCacheAssumption, <2>2, CeilBound, TimesOrder DEF CeilDiv
  <2>4. (Len(c.blocks) + k) * BlockSize = cap + k * BlockSize
    <3>1. PICK l \in Nat : l = Len(c.blocks)
      BY <1>1
    <3>2. (l + k) * BlockSize = l * BlockSize + k * BlockSize
      BY KvCacheAssumption, TimesOrder
    <3> QED
      BY <1>2, <3>1, <3>2
  <2>5. BlocksNeeded(c, n) = k
    BY <1>3, <1>4, <2>1, <2>2
  <2>6. cap + k * BlockSize >= e
    BY <2>1, <2>3
  <2> QED
    BY <1>2, <2>4, <2>5, <2>6
<1>5. CASE ~(e > cap)
  <2>1. BlocksNeeded(c, n) = 0
    BY <1>3, <1>5
  <2>2. Len(c.blocks) + 0 = Len(c.blocks) /\ cap >= e
    BY <1>1, <1>5
  <2> QED
    BY <1>2, <2>1, <2>2
<1> QED
  BY <1>4, <1>5

(* d maps what c maps, and after it only blocks that are not cached.       *)
Extends(c, d) ==
  /\ KvCacheType(d) /\ Accounted(d) /\ d.registry = c.registry
  /\ Len(c.blocks) <= Len(d.blocks)
  /\ \A i \in 1 .. Len(c.blocks) : d.blocks[i] = c.blocks[i]
  /\ \A i \in Len(c.blocks) + 1 .. Len(d.blocks) : d.blocks[i] \notin Cached(c)

LEMMA ReserveAccount ==
  ASSUME NEW c, KvCacheType(c), Accounted(c), NEW n \in Nat, CanAllocateKv(c, n),
         NEW pool, NEW d, d = [AllocateKv(c, n) EXCEPT !.pool = pool]
  PROVE  Extends(c, d) /\ d.len = c.len + n /\ TableCapacity(d) >= d.len
<1> DEFINE k == BlocksNeeded(c, n)
           a == AllocateBlocks(c, k)
           r == AllocateKv(c, n)
<1>1. /\ c.len \in Nat /\ Len(c.blocks) \in Nat /\ NumFree(c) \in Nat
  BY TypeRecounts, LenProperties DEF NumFree
<1>2. k \in 0 .. NumFree(c) /\ (Len(c.blocks) + k) * BlockSize >= c.len + n
  <2>1. k \in Nat /\ (Len(c.blocks) + k) * BlockSize >= c.len + n
    BY NeededFacts
  <2>2. k <= NumFree(c)
    BY DEF CanAllocateKv
  <2> HIDE DEF k
  <2> QED
    BY <1>1, <2>1, <2>2
<1>3. r = [a EXCEPT !.len = a.len + n]
  BY DEF AllocateKv
<1> HIDE DEF k
<1>4. /\ KvCacheType(a) /\ Accounted(a)
      /\ a.len = c.len /\ a.registry = c.registry
      /\ Len(a.blocks) = Len(c.blocks) + k
      /\ \A i \in 1 .. Len(c.blocks) : a.blocks[i] = c.blocks[i]
      /\ \A i \in Len(c.blocks) + 1 .. Len(a.blocks) : a.blocks[i] \notin Cached(c)
  <2>1. Allocated(c, k, a)
    BY <1>2, AllocateAccount
  <2> QED
    BY ONLY <2>1 DEF Allocated
<1> HIDE DEF a, r
<1>5. a.len + n \in Nat
  BY <1>1, <1>4
<1>6. /\ KvCacheType(r) /\ Accounted(r)
      /\ r.free = a.free /\ r.blocks = a.blocks /\ r.len = a.len + n /\ r.registry = a.registry
  BY <1>3, <1>4, <1>5, LenIrrelevant
<1>7. d = [r EXCEPT !.pool = pool]
  BY DEF r
<1>8. /\ KvCacheType(d) /\ Accounted(d)
      /\ d.blocks = r.blocks /\ d.len = r.len /\ d.registry = r.registry
  <2>1. KvCacheType(r) /\ Accounted(r)
    BY <1>6
  <2> QED
    BY ONLY <1>7, <2>1, PoolIrrelevant
<1>9. Len(c.blocks) <= Len(d.blocks)
  BY <1>1, <1>2, <1>4, <1>6, <1>8
<1>10. Extends(c, d)
  BY <1>4, <1>6, <1>8, <1>9 DEF Extends
<1>11. d.len = c.len + n /\ TableCapacity(d) >= d.len
  BY <1>2, <1>4, <1>6, <1>8 DEF TableCapacity
<1> QED
  BY <1>10, <1>11

LEMMA ForwardAccount ==
  ASSUME NEW c, KvCacheType(c), Accounted(c), NEW n \in Nat, CanAllocateKv(c, n),
         NEW tokens, NEW d, d = Forward(c, tokens, n)
  PROVE  Extends(c, d) /\ d.len = c.len + n /\ TableCapacity(d) >= d.len
<1>1. PICK pool : d = [AllocateKv(c, n) EXCEPT !.pool = pool]
  BY DEF Forward
<1> QED
  BY <1>1, ReserveAccount

LEMMA AllocateKvFailsAccount ==
  ASSUME NEW c, KvCacheType(c), Accounted(c), NEW n, NEW d, d = AllocateKvFails(c, n)
  PROVE  Extends(c, d) /\ d.len = c.len
<1>1. Len(c.blocks) \in Nat /\ NumFree(c) \in Nat
  BY TypeRecounts, LenProperties DEF NumFree
<1>2. CASE Overflows(c, n)
  <2>1. d = c
    BY <1>2 DEF AllocateKvFails
  <2>2. \A i \in Len(c.blocks) + 1 .. Len(c.blocks) : FALSE
    BY <1>1
  <2> QED
    BY <1>1, <2>1, <2>2 DEF Extends
<1>3. CASE ~Overflows(c, n)
  <2>1. d = AllocateBlocks(c, NumFree(c)) /\ NumFree(c) \in 0 .. NumFree(c)
    BY <1>1, <1>3 DEF AllocateKvFails
  <2>2. /\ KvCacheType(d) /\ Accounted(d)
        /\ d.len = c.len /\ d.registry = c.registry
        /\ Len(d.blocks) = Len(c.blocks) + NumFree(c)
        /\ \A i \in 1 .. Len(c.blocks) : d.blocks[i] = c.blocks[i]
        /\ \A i \in Len(c.blocks) + 1 .. Len(d.blocks) : d.blocks[i] \notin Cached(c)
    <3>1. Allocated(c, NumFree(c), d)
      BY <2>1, AllocateAccount
    <3> QED
      BY ONLY <3>1 DEF Allocated
  <2>3. Len(c.blocks) <= Len(d.blocks)
    BY <1>1, <2>2
  <2> QED
    BY <2>2, <2>3 DEF Extends
<1> QED
  BY <1>2, <1>3

-----------------------------------------------------------------------------
(* Importing n blocks of a bundle into a cache that has room for them.     *)
LEMMA ImportBlocksAccount ==
  ASSUME NEW c, KvCacheType(c), Accounted(c), NEW items,
         NEW n \in 0 .. NumFree(ResetSequence(c)), NEW d, d = ImportBlocks(c, items, n)
  PROVE  /\ KvCacheType(d) /\ Accounted(d) /\ d.len = 0
         /\ d.registry = c.registry /\ Len(d.blocks) = n
         /\ \A i \in 1 .. n : d.blocks[i] \notin Cached(c)
<1> DEFINE r == ResetSequence(c)
           a == AllocateBlocks(r, n)
<1>1. /\ KvCacheType(r) /\ Accounted(r) /\ r.blocks = Empty /\ r.len = 0
      /\ r.registry = c.registry
  BY ResetAccount
<1>2. n \in 0 .. NumFree(r)
  OBVIOUS
<1>3. PICK p : d = [a EXCEPT !.pool = p]
  BY DEF ImportBlocks
<1> HIDE DEF r
<1>4. /\ KvCacheType(a) /\ Accounted(a)
      /\ a.len = r.len /\ a.registry = r.registry
      /\ Len(a.blocks) = Len(r.blocks) + n
      /\ \A i \in Len(r.blocks) + 1 .. Len(a.blocks) : a.blocks[i] \notin Cached(r)
  <2>1. a = AllocateBlocks(r, n)
    OBVIOUS
  <2> HIDE DEF a
  <2>2. Allocated(r, n, a)
    BY ONLY <1>1, <1>2, <2>1, AllocateAccount
  <2> QED
    BY ONLY <2>2 DEF Allocated
<1>5. Len(r.blocks) = 0
  BY <1>1 DEF Empty
<1>6. NumFree(r) \in Nat
  BY <1>1, TypeRecounts, LenProperties DEF NumFree
<1> HIDE DEF a
<1>7. Len(a.blocks) = n /\ \A i \in 1 .. n : a.blocks[i] \notin Cached(c)
  <2>1. Cached(r) = Cached(c)
    BY <1>1 DEF Cached
  <2>2. 0 + n = n /\ 0 + 1 = 1
    BY <1>2, <1>6
  <2> QED
    BY <1>4, <1>5, <2>1, <2>2
<1>8. /\ KvCacheType(d) /\ Accounted(d)
      /\ d.blocks = a.blocks /\ d.len = a.len /\ d.registry = a.registry
  <2>1. KvCacheType(a) /\ Accounted(a)
    BY <1>4
  <2> QED
    BY ONLY <1>3, <2>1, PoolIrrelevant
<1> QED
  BY <1>1, <1>4, <1>7, <1>8

LEMMA ImportFailsAccount ==
  ASSUME NEW c, KvCacheType(c), Accounted(c), NEW items,
         NEW n \in 0 .. NumFree(ResetSequence(c)), NEW d, d = ImportFailsMidway(c, items, n)
  PROVE  KvCacheType(d) /\ Accounted(d) /\ d.registry = c.registry
<1> DEFINE p == ImportBlocks(c, items, n)
<1>1. KvCacheType(p) /\ Accounted(p) /\ p.registry = c.registry
  BY ImportBlocksAccount
<1>2. d = [FoldLeft(Decref, p, p.blocks) EXCEPT !.blocks = Empty]
  BY DEF ImportFailsMidway
<1> HIDE DEF p
<1> QED
  BY <1>1, <1>2, RollBackAccount

(* The paths of a prefix of whole blocks are the first paths.              *)
FirstBlocks(tokens, n) == SubSeq(tokens, 1, n * BlockSize)

LEMMA PathsOfPrefix ==
  ASSUME NEW T, NEW tokens \in Seq(T), NEW n \in Nat, n * BlockSize <= Len(tokens),
         NEW pre, pre = FirstBlocks(tokens, n)
  PROVE  /\ pre \in Seq(T) /\ Len(pre) = n * BlockSize /\ Len(pre) \div BlockSize = n
         /\ \A i \in 1 .. n : PathOf(pre, i - 1) = PathOf(tokens, i - 1)
<1>1. PICK k \in Nat : k = n * BlockSize
  BY KvCacheAssumption, TimesOrder
<1>2. /\ pre \in Seq(T) /\ Len(pre) = k /\ \A i \in 1 .. k : pre[i] = tokens[i]
  <2>1. \A i \in 1 .. k : tokens[i] \in T
    BY <1>1, ElementOfSeq, LenProperties
  <2>2. /\ SubSeq(tokens, 1, k) \in Seq(T)
        /\ Len(SubSeq(tokens, 1, k)) = IF 1 <= k THEN k - 1 + 1 ELSE 0
        /\ \A i \in 1 .. k - 1 + 1 : SubSeq(tokens, 1, k)[i] = tokens[1 + i - 1]
    BY <2>1, SubSeqProperties
  <2>3. k - 1 + 1 = k /\ (~(1 <= k) => k = 0) /\ \A i \in 1 .. k : 1 + i - 1 = i
    OBVIOUS
  <2> QED
    BY <1>1, <2>2, <2>3 DEF FirstBlocks
<1>3. k \div BlockSize = n
  BY KvCacheAssumption, <1>1, DivOfTimes
<1>4. ASSUME NEW i \in 1 .. n PROVE PathOf(pre, i - 1) = PathOf(tokens, i - 1)
  <2>1. i - 1 \in Nat /\ (i - 1) + 1 = i /\ i \in Nat /\ i <= n
    OBVIOUS
  <2>2. PICK j \in Nat : j = i * BlockSize /\ j <= k
    BY KvCacheAssumption, <1>1, <2>1, TimesOrder
  <2>3. /\ PathOf(pre, i - 1) \in Seq(T) /\ Len(PathOf(pre, i - 1)) = j
        /\ \A x \in 1 .. j : PathOf(pre, i - 1)[x] = pre[x]
    <3>1. j <= Len(pre)
      BY <1>2, <2>2
    <3> QED
      BY ONLY <1>2, <2>1, <2>2, <3>1, PathLength
  <2>4. /\ PathOf(tokens, i - 1) \in Seq(T) /\ Len(PathOf(tokens, i - 1)) = j
        /\ \A x \in 1 .. j : PathOf(tokens, i - 1)[x] = tokens[x]
    <3>1. j <= Len(tokens)
      BY <1>1, <2>2, LenProperties
    <3> QED
      BY <2>1, <2>2, <3>1, PathLength
  <2>5. \A x \in 1 .. j : x \in 1 .. k
    BY <2>2
  <2> HIDE DEF PathOf
  <2> QED
    BY <1>2, <2>3, <2>4, <2>5, SeqEqual
<1> QED
  BY <1>1, <1>2, <1>3, <1>4

LEMMA ImportAccount ==
  ASSUME NEW c, KvCacheType(c), Accounted(c), IsRegistry(c.registry),
         NEW T, NEW tokens \in Seq(T), NEW n \in Nat, n * BlockSize <= Len(tokens),
         NEW items, Len(items) = n * BlockSize, ImportFits(c, items),
         NEW d, d = ImportPrefixBundle(c, tokens, items)
  PROVE  /\ KvCacheType(d) /\ Accounted(d) /\ IsRegistry(d.registry)
         /\ d.len = n * BlockSize /\ Len(d.blocks) = n
         /\ d.blocks = ImportBlocks(c, items, n).blocks /\ d.pool = ImportBlocks(c, items, n).pool
         /\ Cached(d) \subseteq Cached(c) \cup Table(d)
         /\ DOMAIN d.registry = DOMAIN c.registry \cup {PathOf(tokens, i - 1) : i \in 1 .. n}
<1> DEFINE a == ImportBlocks(c, items, n)
           j == [a EXCEPT !.len = Len(items)]
           pre == FirstBlocks(tokens, n)
<1>1. Len(items) \div BlockSize = n /\ Len(items) \in Nat
  BY KvCacheAssumption, DivOfTimes, TimesOrder
<1>2. d = RegisterPrefix(j, pre)
  BY <1>1 DEF ImportPrefixBundle, FirstBlocks
<1>3. n \in 0 .. NumFree(ResetSequence(c))
  <2>1. NumFree(ResetSequence(c)) >= n
    BY <1>1 DEF ImportFits
  <2>2. NumFree(ResetSequence(c)) \in Nat
    BY ResetAccount, TypeRecounts, LenProperties DEF NumFree
  <2> QED
    BY <2>1, <2>2
<1>4. /\ KvCacheType(a) /\ Accounted(a) /\ a.len = 0
      /\ a.registry = c.registry /\ Len(a.blocks) = n
      /\ \A i \in 1 .. n : a.blocks[i] \notin Cached(c)
  BY <1>3, ImportBlocksAccount
<1>5. /\ pre \in Seq(T) /\ Len(pre) = n * BlockSize /\ Len(pre) \div BlockSize = n
      /\ \A i \in 1 .. n : PathOf(pre, i - 1) = PathOf(tokens, i - 1)
  BY PathsOfPrefix
<1> HIDE DEF a
<1>6. /\ KvCacheType(j) /\ Accounted(j)
      /\ j.blocks = a.blocks /\ j.len = Len(items) /\ j.registry = a.registry
      /\ j.pool = a.pool
  BY <1>1, <1>4, LenIrrelevant
<1> HIDE DEF j, pre
<1>7. Cached(j) = Cached(c) /\ IsRegistry(j.registry)
  BY <1>4, <1>6 DEF Cached
<1>8. /\ Len(pre) \div BlockSize <= Len(j.blocks)
      /\ \A i \in 1 .. Len(pre) \div BlockSize :
           j.blocks[i] \in Cached(j) => PathOf(pre, i - 1) \in DOMAIN j.registry
  BY <1>4, <1>5, <1>6, <1>7
<1>9. /\ KvCacheType(d) /\ Accounted(d) /\ IsRegistry(d.registry)
      /\ d.blocks = j.blocks /\ d.len = j.len /\ d.pool = j.pool
      /\ DOMAIN d.registry = DOMAIN j.registry \cup PathsOf(pre)
      /\ Cached(d) \subseteq Cached(j) \cup {j.blocks[i] : i \in 1 .. Len(pre) \div BlockSize}
  BY ONLY <1>2, <1>5, <1>6, <1>7, <1>8, RegisterAccount
<1>10. PathsOf(pre) = {PathOf(tokens, i - 1) : i \in 1 .. n}
  BY <1>5 DEF PathsOf
<1>11. Cached(d) \subseteq Cached(c) \cup Table(d)
  <2>1. DOMAIN d.blocks = 1 .. n
    BY <1>4, <1>6, <1>9, TypeRecounts, LenProperties
  <2> QED
    BY <1>5, <1>7, <1>9, <2>1 DEF Table, ToSet
<1> QED
  BY <1>4, <1>6, <1>9, <1>10, <1>11 DEF a

-----------------------------------------------------------------------------
LEMMA BlocksFinite == NumBlocks \in Nat /\ IsFiniteSet(Blocks)
<1>1. NumBlocks \in Nat
  BY KvCacheAssumption, CeilBound DEF NumBlocks, CeilDiv
<1> QED
  BY <1>1, FS_Interval DEF Blocks

(* Every order of a finite set is a sequence of its elements, each once.   *)
LEMMA OrderOfSet ==
  ASSUME NEW S, IsFiniteSet(S), NEW order \in SetToSeqs(S)
  PROVE  order \in Seq(S) /\ IsInjective(order) /\ ToSet(order) = S
<1>1. PICK n \in Nat : n = Cardinality(S)
  BY FS_CardinalityType
<1>2. order \in [1 .. n -> S] /\ \A i, j \in 1 .. n : i # j => order[i] # order[j]
  BY <1>1 DEF SetToSeqs
<1>3. order \in Seq(S) /\ IsInjective(order)
  BY <1>1, <1>2, SeqDef DEF IsInjective
<1>4. order \in Injection(1 .. n, S)
  BY <1>2 DEF Injection, IsInjective
<1>5. IsFiniteSet(1 .. n) /\ Cardinality(1 .. n) = n
  BY <1>1, FS_Interval
<1>6. order \in Surjection(1 .. n, S)
  BY <1>1, <1>4, <1>5, FS_Injection
<1> QED
  BY <1>2, <1>3, <1>6 DEF Surjection, ToSet

(* Clearing the registry frees what only the registry held.                *)
LEMMA ClearAccount ==
  ASSUME NEW c, KvCacheType(c), Accounted(c), NEW order \in DrainOrders(c),
         NEW d, d = ClearPrefixCache(c, order)
  PROVE  /\ KvCacheType(d) /\ Accounted(d)
         /\ d.registry = [path \in {} |-> 0] /\ d.blocks = c.blocks /\ d.len = c.len
<1> DEFINE n == Cardinality(Cached(c))
           x == FoldLeft(Decref, c, order)
<1>1. /\ c \in Recounts(c)
      /\ c.free \in Seq(Blocks) /\ c.ref_counts \in [Blocks -> Nat]
      /\ c.blocks \in Seq(Blocks) /\ c.len \in Nat
      /\ Table(c) \subseteq Blocks
  BY TypeRecounts
<1>2. Cached(c) \subseteq Blocks
  BY DEF Accounted
<1>3. IsFiniteSet(Cached(c)) /\ n \in Nat
  BY <1>2, BlocksFinite, FS_Subset, FS_CardinalityType
<1>4. order \in Seq(Cached(c)) /\ IsInjective(order) /\ ToSet(order) = Cached(c)
  <2>1. order \in SetToSeqs(Cached(c))
    BY DEF DrainOrders, Cached
  <2> QED
    BY <1>3, <2>1, OrderOfSet
<1> HIDE DEF n
<1>5. order \in Seq(Blocks) /\ IsInjective(order)
  <2>1. \A i \in 1 .. Len(order) : order[i] \in Blocks
    BY <1>2, <1>4, ElementOfSeq
  <2>2. Len(order) \in Nat /\ order \in [1 .. Len(order) -> Blocks]
    BY <1>4, <2>1, LenProperties
  <2> QED
    BY <1>4, <2>2, SeqDef
<1>6. ToSet(order) = Cached(c)
  BY <1>4
<1>7. /\ \A b \in Table(c) \cap Cached(c) : c.ref_counts[b] = 2
      /\ \A b \in Table(c) \ Cached(c) : c.ref_counts[b] = 1
      /\ \A b \in Cached(c) \ Table(c) : c.ref_counts[b] = 1
      /\ \A b \in Blocks \ (Table(c) \cup Cached(c)) : c.ref_counts[b] = 0
      /\ ToSet(c.free) = Blocks \ (Table(c) \cup Cached(c))
      /\ IsInjective(c.free) /\ IsInjective(c.blocks)
  BY DEF Accounted
<1>8. \A b \in ToSet(order) : c.ref_counts[b] >= 1 /\ b \notin ToSet(c.free)
  <2> TAKE b \in ToSet(order)
  <2>1. b \in Cached(c)
    BY <1>6
  <2>2. c.ref_counts[b] = 1 \/ c.ref_counts[b] = 2
    BY <1>7, <2>1
  <2> QED
    BY <1>7, <2>1, <2>2
<1>9. /\ x \in Recounts(c)
      /\ IsInjective(x.free)
      /\ ToSet(x.free) = ToSet(c.free) \cup {b \in ToSet(order) : c.ref_counts[b] = 1}
      /\ \A b \in ToSet(order) : x.ref_counts[b] = c.ref_counts[b] - 1
      /\ \A b \in Blocks \ ToSet(order) : x.ref_counts[b] = c.ref_counts[b]
  BY <1>1, <1>5, <1>7, <1>8, DecrefEach
<1> HIDE DEF x
<1>10. /\ \A b \in Table(c) : x.ref_counts[b] = 1
       /\ \A b \in Blocks \ Table(c) : x.ref_counts[b] = 0
  <2>1. ASSUME NEW b \in Table(c) PROVE x.ref_counts[b] = 1
    <3>1. CASE b \in Cached(c)
      <4>1. c.ref_counts[b] = 2
        BY <1>7, <2>1, <3>1
      <4>2. x.ref_counts[b] = 2 - 1
        BY <1>6, <1>9, <3>1, <4>1
      <4> QED
        BY <4>2
    <3>2. CASE b \notin Cached(c)
      BY <1>1, <1>6, <1>7, <1>9, <2>1, <3>2
    <3> QED
      BY <3>1, <3>2
  <2>2. ASSUME NEW b \in Blocks \ Table(c) PROVE x.ref_counts[b] = 0
    <3>1. CASE b \in Cached(c)
      <4>1. c.ref_counts[b] = 1
        BY <1>7, <2>2, <3>1
      <4>2. x.ref_counts[b] = 1 - 1
        BY <1>6, <1>9, <3>1, <4>1
      <4> QED
        BY <4>2
    <3>2. CASE b \notin Cached(c)
      BY <1>6, <1>7, <1>9, <2>2, <3>2
    <3> QED
      BY <3>1, <3>2
  <2> QED
    BY <2>1, <2>2
<1>11. x.ref_counts \in [Blocks -> Nat]
  <2>1. x.ref_counts \in [Blocks -> Int]
    BY <1>9 DEF Recounts
  <2> QED
    BY <1>10, <2>1
<1>12. ToSet(x.free) = Blocks \ Table(c)
  <2>1. \A b \in Cached(c) : c.ref_counts[b] = 1 <=> b \notin Table(c)
    <3> TAKE b \in Cached(c)
    <3>1. CASE b \in Table(c)
      <4>1. c.ref_counts[b] = 2
        BY <1>7, <3>1
      <4> QED
        BY <3>1, <4>1
    <3>2. CASE b \notin Table(c)
      BY <1>7, <3>2
    <3> QED
      BY <3>1, <3>2
  <2> QED
    BY <1>2, <1>6, <1>7, <1>9, <2>1
<1> DEFINE reg == [path \in {} |-> 0]
<1>13. d = [x EXCEPT !.registry = reg]
  BY DEF ClearPrefixCache, x
<1>14. DOMAIN reg = {}
  OBVIOUS
<1> HIDE DEF reg
<1>15. /\ d.free = x.free /\ d.ref_counts = x.ref_counts /\ d.blocks = c.blocks
       /\ d.len = c.len /\ d.registry = reg /\ d.pool = c.pool
  BY <1>9, <1>13 DEF Recounts
<1>16. KvCacheType(d)
  <2>1. d \in [free : Seq(Blocks), ref_counts : [Blocks -> Nat], blocks : Seq(Blocks),
               len : Nat, registry : {reg}, pool : {c.pool}]
    BY <1>1, <1>9, <1>11, <1>13 DEF Recounts
  <2> QED
    BY <1>15, <2>1 DEF KvCacheType
<1>17. Cached(d) = {} /\ Table(d) = Table(c)
  BY <1>14, <1>15 DEF Cached, Table
<1>18. Accounted(d)
  BY <1>1, <1>7, <1>9, <1>10, <1>12, <1>14, <1>15, <1>17 DEF Accounted
<1> QED
  BY <1>15, <1>16, <1>18 DEF reg

(* What the account says of references.                                    *)
LEMMA AccountCounts ==
  ASSUME NEW c, KvCacheType(c), Accounted(c), NEW b \in Blocks
  PROVE  /\ c.ref_counts[b] = References(c, b)
         /\ Cardinality({i \in 1 .. NumFree(c) : c.free[i] = b}) =
              (IF References(c, b) = 0 THEN 1 ELSE 0)
<1>1. /\ c.free \in Seq(Blocks) /\ c.ref_counts \in [Blocks -> Nat]
      /\ c.blocks \in Seq(Blocks)
  BY TypeRecounts
<1>2. \A s \in Seq(Blocks) : IsInjective(s) =>
        Cardinality({i \in 1 .. Len(s) : s[i] = b}) = IF b \in ToSet(s) THEN 1 ELSE 0
  <2> TAKE s \in Seq(Blocks)
  <2> HAVE IsInjective(s)
  <2>1. DOMAIN s = 1 .. Len(s)
    BY LenProperties
  <2>2. CASE b \in ToSet(s)
    <3>1. PICK i \in 1 .. Len(s) : s[i] = b
      BY <2>1, <2>2 DEF ToSet
    <3>2. {k \in 1 .. Len(s) : s[k] = b} = {i}
      BY <2>1, <3>1 DEF IsInjective
    <3> QED
      BY <2>2, <3>2, FS_Singleton
  <2>3. CASE b \notin ToSet(s)
    <3>1. {k \in 1 .. Len(s) : s[k] = b} = {}
      BY <2>1, <2>3 DEF ToSet
    <3> QED
      BY <2>3, <3>1, FS_EmptySet
  <2> QED
    BY <2>2, <2>3
<1>3. Cardinality({p \in DOMAIN c.registry : c.registry[p] = b}) =
        IF b \in Cached(c) THEN 1 ELSE 0
  <2>1. \A p, q \in DOMAIN c.registry : c.registry[p] = c.registry[q] => p = q
    BY DEF Accounted
  <2>2. CASE b \in Cached(c)
    <3>1. PICK p \in DOMAIN c.registry : c.registry[p] = b
      BY <2>2 DEF Cached
    <3>2. {q \in DOMAIN c.registry : c.registry[q] = b} = {p}
      BY <2>1, <3>1
    <3> QED
      BY <2>2, <3>2, FS_Singleton
  <2>3. CASE b \notin Cached(c)
    <3>1. {q \in DOMAIN c.registry : c.registry[q] = b} = {}
      BY <2>3 DEF Cached
    <3> QED
      BY <2>3, <3>1, FS_EmptySet
  <2> QED
    BY <2>2, <2>3
<1>4. References(c, b) = (IF b \in Table(c) THEN 1 ELSE 0) + (IF b \in Cached(c) THEN 1 ELSE 0)
  <2>1. Cardinality({i \in 1 .. Len(c.blocks) : c.blocks[i] = b}) =
          IF b \in Table(c) THEN 1 ELSE 0
    BY <1>1, <1>2 DEF Accounted, Table
  <2> QED
    BY <1>3, <2>1 DEF References
<1>5. /\ b \in Table(c) \cap Cached(c) => c.ref_counts[b] = 2
      /\ b \in Table(c) \ Cached(c) => c.ref_counts[b] = 1
      /\ b \in Cached(c) \ Table(c) => c.ref_counts[b] = 1
      /\ b \notin Table(c) \cup Cached(c) => c.ref_counts[b] = 0
      /\ b \in ToSet(c.free) <=> b \notin Table(c) \cup Cached(c)
  BY DEF Accounted
<1>6. Cardinality({i \in 1 .. NumFree(c) : c.free[i] = b}) = IF b \in ToSet(c.free) THEN 1 ELSE 0
  BY <1>1, <1>2 DEF Accounted, NumFree
<1>7. References(c, b) = 0 <=> b \notin Table(c) \cup Cached(c)
  BY <1>4
<1>8. c.ref_counts[b] = References(c, b)
  BY <1>4, <1>5
<1> QED
  BY <1>5, <1>6, <1>7, <1>8

-----------------------------------------------------------------------------
(* The place of position x of block b, and where a slot belongs.           *)
LEMMA DivUnique ==
  ASSUME NEW k \in Nat \ {0}, NEW b \in Nat, NEW x \in 0 .. k - 1
  PROVE  (b * k + x) \div k = b /\ (b * k + x) % k = x
<1>1. b * k \in Nat /\ (b + 1) * k = b * k + k /\ (b * k) % k = 0
  BY TimesOrder, DivOfTimes
<1>2. PICK a \in Nat : a = b * k + x
  BY <1>1
<1>3. b <= a \div k /\ a \div k < b + 1
  <2>1. b * k <= a /\ a < (b + 1) * k
    BY <1>1, <1>2
  <2> QED
    BY <2>1, DivBound
<1>4. a \div k = b
  BY <1>3, DivFloor
<1>5. a = k * (a \div k) + (a % k) /\ a % k \in 0 .. k - 1
  BY DivFloor
<1>6. k * b = b * k
  OBVIOUS
<1>7. a % k = x
  <2>1. a = b * k + (a % k)
    BY ONLY <1>4, <1>5, <1>6
  <2> QED
    BY <1>1, <1>2, <1>5, <2>1
<1> QED
  BY <1>2, <1>4, <1>7

LEMMA SlotPlace ==
  ASSUME NEW p \in PoolSlots
  PROVE  p \in Nat /\ p \div BlockSize \in Blocks /\ p % BlockSize \in 0 .. BlockSize - 1
<1>1. NumBlocks \in Nat /\ NumBlocks * BlockSize \in Nat
  BY KvCacheAssumption, BlocksFinite, TimesOrder
<1>2. p \in Nat /\ p < NumBlocks * BlockSize
  BY <1>1 DEF PoolSlots
<1>3. p \div BlockSize < NumBlocks /\ p \div BlockSize \in Nat /\ p % BlockSize \in 0 .. BlockSize - 1
  BY KvCacheAssumption, <1>1, <1>2, DivBound, DivFloor
<1> QED
  BY <1>1, <1>2, <1>3 DEF Blocks

LEMMA BlockPlace ==
  ASSUME NEW b \in Blocks, NEW x \in 0 .. BlockSize - 1
  PROVE  /\ b * BlockSize + x \in PoolSlots
         /\ (b * BlockSize + x) \div BlockSize = b /\ (b * BlockSize + x) % BlockSize = x
<1>1. NumBlocks \in Nat /\ b \in Nat /\ b + 1 <= NumBlocks
  BY BlocksFinite DEF Blocks
<1>2. b * BlockSize \in Nat /\ (b + 1) * BlockSize = b * BlockSize + BlockSize
  BY KvCacheAssumption, <1>1, TimesOrder
<1>3. (b + 1) * BlockSize <= NumBlocks * BlockSize /\ NumBlocks * BlockSize \in Nat
  <2>1. b + 1 \in Nat
    BY <1>1
  <2> QED
    BY KvCacheAssumption, <1>1, <2>1, TimesOrder
<1>4. b * BlockSize + x \in PoolSlots
  BY KvCacheAssumption, <1>2, <1>3 DEF PoolSlots
<1> QED
  BY KvCacheAssumption, <1>1, <1>4, DivUnique

(* Writing blocks of items into a pool, each at its own slots.             *)
BlockItems(items, i) == SubSeq(items, (i - 1) * BlockSize + 1, i * BlockSize)

WriteSteps(tr, pool, blocks, items, n) ==
  /\ tr[0] = pool
  /\ \A i \in 1 .. n : tr[i] = WriteBlock(tr[i - 1], blocks[i], BlockItems(items, i))

WrittenBy(a, items, n, x) ==
  /\ \E tr : WriteSteps(tr, a.pool, a.blocks, items, n) /\ x.pool = tr[n]
  /\ x.blocks = a.blocks

LEMMA WriteTrace ==
  ASSUME NEW c, NEW n \in Nat, NEW items, NEW a, a = AllocateBlocks(ResetSequence(c), n),
         DOMAIN a = {"free", "ref_counts", "blocks", "len", "registry", "pool"},
         NEW W0, a.pool \in [PoolSlots -> W0],
         NEW d, d = ImportBlocks(c, items, n)
  PROVE  WrittenBy(a, items, n, d)
<1> DEFINE W == W0 \cup {BlockItems(items, x[1])[x[2]] : x \in (1 .. n) \X (1 .. BlockSize)}
           V == [PoolSlots -> W]
           step(pool, i) == WriteBlock(pool, a.blocks[i], BlockItems(items, i))
           op == [x \in V \X (1 .. n) |-> step(x[1], x[2])]
           s == [i \in 1 .. n |-> i]
           IsIt(g) == g = [t \in SUBSET (1 .. n) |->
                            IF t = {} THEN a.pool ELSE step(g[t \ {Max(t)}], s[Max(t)])]
           h == CHOOSE g : IsIt(g)
<1>1. \A i \in 1 .. n : s[i] = i
  OBVIOUS
<1>2. \A pool \in V, i \in 1 .. n : step(pool, i) \in V
  <2> TAKE pool \in V, i \in 1 .. n
  <2>1. \A p \in PoolSlots : (p % BlockSize) + 1 \in 1 .. BlockSize
    BY KvCacheAssumption, SlotPlace
  <2>2. \A x \in 1 .. BlockSize : BlockItems(items, i)[x] \in W
    <3> TAKE x \in 1 .. BlockSize
    <3>1. <<i, x>> \in (1 .. n) \X (1 .. BlockSize)
      OBVIOUS
    <3> HIDE DEF BlockItems
    <3> QED
      BY <3>1
  <2>3. \A p \in PoolSlots : pool[p] \in W
    OBVIOUS
  <2> HIDE DEF W
  <2> QED
    BY <2>1, <2>2, <2>3 DEF WriteBlock
<1>3. a.pool \in V
  OBVIOUS
<1> HIDE DEF V
<1>4. op \in [V \X (1 .. n) -> V]
  BY <1>2
<1>5. \E g : IsIt(g)
  <2>1. PICK g : IsFold(g, op, a.pool, V, n)
    <3> HIDE DEF op, IsIt
    <3> QED
      BY <1>3, <1>4, FoldExists
  <2>2. \A t \in SUBSET (1 .. n) : t # {} =>
          Max(t) \in 1 .. n /\ <<g[t \ {Max(t)}], Max(t)>> \in V \X (1 .. n)
    BY <2>1, MaxIsMember DEF IsFold
  <2>3. IsIt(g)
    BY <1>1, <2>1, <2>2 DEF IsFold
  <2> HIDE DEF IsIt
  <2> QED
    BY <2>3
<1>6. IsIt(h)
  <2> HIDE DEF IsIt
  <2> QED
    BY <1>5
<1>7. d.pool = h[1 .. n] /\ d.blocks = a.blocks
  BY DEF ImportBlocks, FoldLeft, MapThenFoldSet, BlockItems
<1> HIDE DEF h
<1>8. PICK tr : IsTrace(tr, h, n)
  BY TraceExists
<1>9. tr[0] = a.pool
  BY <1>6, <1>8 DEF IsTrace
<1>10. ASSUME NEW i \in 1 .. n PROVE tr[i] = step(tr[i - 1], i)
  <2>1. h[1 .. i] = step(h[(1 .. i) \ {Max(1 .. i)}], s[Max(1 .. i)])
    BY <1>6, <1>8 DEF IsTrace
  <2>2. s[Max(1 .. i)] = i /\ h[1 .. i] = tr[i] /\ h[(1 .. i) \ {Max(1 .. i)}] = tr[i - 1]
    BY <1>1, <1>8 DEF IsTrace
  <2> QED
    BY <2>1, <2>2
<1> QED
  BY <1>7, <1>8, <1>9, <1>10 DEF IsTrace, WriteSteps, WrittenBy

(* Blocks that are different keep what each was written.                   *)
Different(blocks, n) ==
  /\ n \in Nat /\ blocks \in [1 .. n -> Blocks]
  /\ \A i, j \in 1 .. n : blocks[i] = blocks[j] => i = j

Placed(pool, blocks, items, n) ==
  \A i \in 1 .. n, x \in 0 .. BlockSize - 1 :
    pool[blocks[i] * BlockSize + x] = BlockItems(items, i)[x + 1]

LEMMA WrittenBlocks ==
  ASSUME NEW n, NEW blocks, Different(blocks, n),
         NEW pool, NEW items, NEW tr, WriteSteps(tr, pool, blocks, items, n)
  PROVE  Placed(tr[n], blocks, items, n)
<1> USE DEF Different
<1> DEFINE P(k) == \A i \in 1 .. k, x \in 0 .. BlockSize - 1 :
                     tr[k][blocks[i] * BlockSize + x] = BlockItems(items, i)[x + 1]
           T == {k \in Nat : k <= n => P(k)}
<1>1. 0 \in T
  OBVIOUS
<1>2. ASSUME NEW k \in Nat, k \in T PROVE k + 1 \in T
  <2> SUFFICES ASSUME k + 1 <= n PROVE P(k + 1)
    OBVIOUS
  <2>1. k + 1 \in 1 .. n /\ (k + 1) - 1 = k /\ P(k)
    BY <1>2
  <2>2. tr[k + 1] = WriteBlock(tr[k], blocks[k + 1], BlockItems(items, k + 1))
    BY <2>1 DEF WriteSteps
  <2> HIDE DEF BlockItems
  <2> SUFFICES ASSUME NEW i \in 1 .. k + 1, NEW x \in 0 .. BlockSize - 1
               PROVE  tr[k + 1][blocks[i] * BlockSize + x] = BlockItems(items, i)[x + 1]
    OBVIOUS
  <2>3. blocks[i] \in Blocks /\ i \in 1 .. n
    BY <2>1
  <2> DEFINE slot == blocks[i] * BlockSize + x
  <2>4. slot \in PoolSlots /\ slot \div BlockSize = blocks[i] /\ slot % BlockSize = x
    BY <2>3, BlockPlace
  <2> HIDE DEF slot
  <2>5. tr[k + 1][slot] = IF blocks[i] = blocks[k + 1] THEN BlockItems(items, k + 1)[x + 1]
                          ELSE tr[k][slot]
    BY <2>2, <2>4 DEF WriteBlock
  <2>6. CASE i = k + 1
    BY <2>5, <2>6 DEF slot
  <2>7. CASE i # k + 1
    <3>1. i \in 1 .. k /\ blocks[i] # blocks[k + 1]
      BY <2>1, <2>3, <2>7
    <3>2. tr[k][slot] = BlockItems(items, i)[x + 1]
      BY <2>1, <3>1 DEF slot
    <3> QED
      BY <2>5, <3>1, <3>2 DEF slot
  <2> QED
    BY <2>6, <2>7
<1>3. n \in T
  <2> HIDE DEF T
  <2> QED
    BY <1>1, <1>2, NatSetInduction
<1> QED
  BY <1>3 DEF Placed

(* What n whole blocks carry: one item of W per position, m in all.        *)
Batch(n, m, W, items) ==
  n \in Nat /\ m \in Nat /\ m = n * BlockSize /\ items \in [1 .. m -> W]

ItemAt(items, i, x) == items[(i - 1) * BlockSize + x + 1]

LEMMA BlockOfItems ==
  ASSUME NEW n, NEW m, NEW W, NEW items, Batch(n, m, W, items),
         NEW i \in 1 .. n, NEW x \in 0 .. BlockSize - 1
  PROVE  BlockItems(items, i)[x + 1] = ItemAt(items, i, x)
<1>0. n \in Nat /\ m \in Nat /\ m = n * BlockSize /\ items \in [1 .. m -> W]
  BY DEF Batch
<1>1. PICK j \in Nat : i = j + 1 /\ j + 1 <= n
  <2>1. i - 1 \in Nat /\ i = (i - 1) + 1 /\ i <= n
    BY <1>0
  <2> QED
    BY <2>1
<1>2. PICK a \in Nat : a = j * BlockSize /\ (j + 1) * BlockSize = a + BlockSize
  BY KvCacheAssumption, <1>1, TimesOrder
<1>3. a + BlockSize <= m
  <2>1. j + 1 \in Nat
    BY <1>1
  <2> QED
    BY KvCacheAssumption, <1>0, <1>1, <1>2, <2>1, TimesOrder
<1>4. BlockItems(items, i) = SubSeq(items, a + 1, a + BlockSize)
  <2>1. i - 1 = j
    BY <1>1
  <2> QED
    BY <1>1, <1>2, <2>1 DEF BlockItems
<1>5. \A y \in a + 1 .. a + BlockSize : items[y] \in W
  BY ONLY KvCacheAssumption, <1>2, <1>3, <1>0
<1>6. \A y \in 1 .. (a + BlockSize) - (a + 1) + 1 :
        SubSeq(items, a + 1, a + BlockSize)[y] = items[(a + 1) + y - 1]
  BY <1>5, KvCacheAssumption, SubSeqProperties
<1>7. /\ x + 1 \in 1 .. (a + BlockSize) - (a + 1) + 1
      /\ (a + 1) + (x + 1) - 1 = a + x + 1
  BY KvCacheAssumption
<1>8. SubSeq(items, a + 1, a + BlockSize)[x + 1] = items[a + x + 1]
  <2> HIDE DEF BlockItems
  <2>1. SubSeq(items, a + 1, a + BlockSize)[x + 1] = items[(a + 1) + (x + 1) - 1]
    BY ONLY <1>6, <1>7
  <2> QED
    BY ONLY <1>7, <2>1
<1>9. (i - 1) * BlockSize = a
  <2>1. i - 1 = j
    BY <1>1
  <2> QED
    BY <1>2, <2>1
<1> QED
  BY ONLY <1>4, <1>8, <1>9 DEF ItemAt

(* What an import leaves in the pool at the slot of each position.         *)
Holds(c, items, m) == \A pos \in 0 .. m - 1 : c.pool[Slot(c, pos)] = items[pos + 1]

LEMMA ImportReads ==
  ASSUME NEW c, KvCacheType(c), Accounted(c), NEW W0, c.pool \in [PoolSlots -> W0],
         NEW n, NEW m, NEW W, NEW items, Batch(n, m, W, items), ImportFits(c, items),
         NEW d, d.blocks = ImportBlocks(c, items, n).blocks, d.pool = ImportBlocks(c, items, n).pool
  PROVE  Holds(d, items, m)
<1> DEFINE r == ResetSequence(c)
           a == AllocateBlocks(r, n)
           x == ImportBlocks(c, items, n)
<1> SUFFICES ASSUME NEW pos \in 0 .. m - 1 PROVE d.pool[Slot(d, pos)] = items[pos + 1]
  BY DEF Holds
<1>0. /\ n \in Nat /\ m \in Nat /\ m = n * BlockSize /\ items \in [1 .. m -> W]
      /\ n \in 0 .. NumFree(r)
  <2>1. n \in Nat /\ m \in Nat /\ m = n * BlockSize /\ items \in [1 .. m -> W]
    BY DEF Batch
  <2>2. Len(items) = m
    BY <2>1, SeqDef, LenProperties
  <2>3. m \div BlockSize = n
    BY KvCacheAssumption, <2>1, DivOfTimes
  <2>4. NumFree(r) >= n
    BY <2>2, <2>3 DEF ImportFits
  <2>5. NumFree(r) \in Nat
    BY ResetAccount, TypeRecounts, LenProperties DEF NumFree
  <2> HIDE DEF r
  <2> QED
    BY <2>1, <2>4, <2>5
<1>1. KvCacheType(r) /\ Accounted(r) /\ r.pool = c.pool /\ Len(r.blocks) = 0
  BY ResetAccount DEF Empty
<1>2. n \in Nat /\ NumFree(r) \in Nat
  BY <1>0, <1>1, TypeRecounts, LenProperties DEF NumFree
<1> HIDE DEF r
<1>3. KvCacheType(a) /\ Accounted(a) /\ a.pool = r.pool /\ Len(a.blocks) = Len(r.blocks) + n
  <2>1. Allocated(r, n, a)
    BY <1>0, <1>1, AllocateAccount
  <2> QED
    BY ONLY <2>1 DEF Allocated
<1>4. /\ DOMAIN a = {"free", "ref_counts", "blocks", "len", "registry", "pool"}
      /\ a.blocks \in Seq(Blocks) /\ IsInjective(a.blocks)
  BY <1>3 DEF KvCacheType, Accounted
<1>5. a.blocks \in [1 .. n -> Blocks] /\ \A i, j \in 1 .. n : a.blocks[i] = a.blocks[j] => i = j
  <2>1. DOMAIN a.blocks = 1 .. n
    BY <1>1, <1>2, <1>3, <1>4, LenProperties
  <2>2. \A i \in 1 .. n : a.blocks[i] \in Blocks
    BY <1>2, <1>3, <1>1, <1>4, ElementOfSeq
  <2>3. a.blocks = [i \in 1 .. n |-> a.blocks[i]]
    BY <1>4, <2>1, LenProperties
  <2> HIDE DEF a
  <2> QED
    BY <1>4, <2>1, <2>2, <2>3 DEF IsInjective
<1>6. /\ a.pool \in [PoolSlots -> W0] /\ a = AllocateBlocks(ResetSequence(c), n)
      /\ x = ImportBlocks(c, items, n)
  BY <1>1, <1>3 DEF r
<1> HIDE DEF a, x
<1>7. WrittenBy(a, items, n, x)
  BY ONLY <1>2, <1>4, <1>6, WriteTrace
<1>8. PICK tr : WriteSteps(tr, a.pool, a.blocks, items, n) /\ x.pool = tr[n]
  BY <1>7 DEF WrittenBy
<1>9. Placed(d.pool, d.blocks, items, n)
  <2>1. d.pool = tr[n] /\ d.blocks = a.blocks
    BY <1>7, <1>8 DEF x, WrittenBy
  <2>2. Placed(tr[n], a.blocks, items, n)
    <3>1. Different(a.blocks, n)
      BY <1>2, <1>5 DEF Different
    <3>2. WriteSteps(tr, a.pool, a.blocks, items, n)
      BY <1>8
    <3> QED
      BY ONLY <3>1, <3>2, WrittenBlocks
  <2> QED
    BY <2>1, <2>2
<1>10. PICK q \in Nat : q = pos \div BlockSize
  <2>1. pos \in Nat
    BY <1>0
  <2> QED
    BY ONLY <2>1, KvCacheAssumption, DivFloor
<1>11. PICK y \in 0 .. BlockSize - 1 : y = pos % BlockSize
  <2>1. pos \in Nat
    BY <1>0
  <2> QED
    BY ONLY <2>1, KvCacheAssumption, DivFloor
<1>12. q * BlockSize + y = pos
  BY <1>0, KvCacheAssumption, <1>10, <1>11, DivFloor
<1>13. PICK i \in 1 .. n : i = q + 1
  <2>1. q < n
    <3>1. pos \in Nat /\ pos < n * BlockSize
      BY <1>0
    <3> QED
      BY KvCacheAssumption, <1>2, <1>10, <3>1, DivBound
  <2>2. q + 1 \in 1 .. n
    BY <1>2, <2>1
  <2> QED
    BY <2>2
<1>14. Slot(d, pos) = d.blocks[i] * BlockSize + y
  BY <1>10, <1>11, <1>13 DEF Slot, BlockAt
<1> HIDE DEF BlockItems
<1>15. BlockItems(items, i)[y + 1] = ItemAt(items, i, y)
  <2>1. Batch(n, m, W, items)
    OBVIOUS
  <2> QED
    BY ONLY <2>1, BlockOfItems
<1>16. ItemAt(items, i, y) = items[pos + 1]
  <2>1. i - 1 = q
    BY <1>13
  <2> QED
    BY <1>12, <2>1 DEF ItemAt
<1> QED
  BY <1>9, <1>14, <1>15, <1>16 DEF Placed

(* A new cache, whatever the order of its free stack.                      *)
Unused(c) ==
  /\ c.registry = [path \in {} |-> 0]
  /\ c.pool \in [PoolSlots -> {Empty}]

LEMMA NewCacheAccount ==
  ASSUME NEW order \in SetToSeqs(Blocks), NEW c, c = [NewKvCache EXCEPT !.free = order]
  PROVE  /\ KvCacheType(c) /\ Accounted(c) /\ Unused(c)
         /\ c.blocks = Empty /\ c.len = 0
<1>1. order \in Seq(Blocks) /\ IsInjective(order) /\ ToSet(order) = Blocks
  BY BlocksFinite, OrderOfSet
<1>2. /\ c.free = order /\ c.ref_counts = [b \in Blocks |-> 0] /\ c.blocks = Empty
      /\ c.len = 0 /\ c.registry = [path \in {} |-> 0]
      /\ c.pool = [s \in PoolSlots |-> Empty]
      /\ DOMAIN c = {"free", "ref_counts", "blocks", "len", "registry", "pool"}
  BY DEF NewKvCache
<1>3. KvCacheType(c)
  <2>1. Empty \in Seq(Blocks)
    BY EmptySeq DEF Empty
  <2>2. c = [free |-> c.free, ref_counts |-> c.ref_counts, blocks |-> c.blocks, len |-> c.len,
             registry |-> c.registry, pool |-> c.pool]
    BY DEF NewKvCache
  <2>3. c.ref_counts \in [Blocks -> Nat]
    BY <1>2
  <2> QED
    BY <1>1, <1>2, <2>1, <2>2, <2>3 DEF KvCacheType
<1>4. Table(c) = {} /\ Cached(c) = {}
  BY <1>2 DEF Table, Cached, ToSet, Empty
<1>5. IsInjective(c.blocks)
  BY <1>2 DEF IsInjective, Empty
<1>6. Accounted(c)
  BY <1>1, <1>2, <1>4, <1>5 DEF Accounted
<1> QED
  BY <1>2, <1>3, <1>6 DEF Unused

=============================================================================
