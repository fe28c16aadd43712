-------------------------- MODULE KvSessionProofs ---------------------------
(***************************************************************************)
(* The blocks of an engine's cache over any number of requests: for any    *)
(* block size, pool, prompts and remote store.                             *)
(*                                                                         *)
(* KvCacheProofs says what each call on the cache does to the account of   *)
(* its blocks.  The invariant adds what the steps of a request know of     *)
(* each other: before the suffix is run the table maps whole blocks of the *)
(* prompt, all of them cached, fewer than the prompt has tokens; once it   *)
(* decodes, a cached block of the table ends within the prompt, so a       *)
(* generated token is never written to one.                                *)
(***************************************************************************)
EXTENDS KvSession, KvCacheProofs

Tokens == NextTokens \cup UNION {ToSet(p) : p \in Prompts}

BundlesWhole == \A b \in remote \cup publishing : Len(b.items) = Len(b.tokens)

(* Between the match and the suffix.  As long as no bundle was imported,   *)
(* the match is the one that local_fits was computed from.                 *)
Prefilling ==
  /\ seq = prompt
  /\ kv.len = reused /\ reused = Len(kv.blocks) * BlockSize /\ reused < Len(prompt)
  /\ \A i \in 1 .. Len(kv.blocks) : PathOf(prompt, i - 1) \in DOMAIN kv.registry
  /\ phase = "fetch" => ~imported
  /\ ~imported =>
       /\ Table(kv) \subseteq Cached(kv)
       /\ Len(kv.blocks) = MatchedBlocks(kv, prompt)
       /\ local_fits <=> CanAllocateKv(kv, Len(prompt) - kv.len)

Decoding ==
  /\ seq \in Seq(Tokens) /\ kv.len = Len(seq) /\ Len(prompt) <= Len(seq)
  /\ \A i \in 1 .. Len(kv.blocks) :
       kv.blocks[i] \in Cached(kv) => i * BlockSize <= Len(prompt)

SessionInv ==
  /\ KvCacheType(kv) /\ Accounted(kv) /\ IsRegistry(kv.registry)
  /\ kv.len <= TableCapacity(kv)
  /\ RegistryPrefixClosed
  /\ phase \in {"idle", "fetch", "suffix", "decode"}
  /\ reused \in 0 .. NumBlocks * BlockSize
  /\ outcome \in {"none", "done", "prefill failed", "decode failed"}
  /\ BundlesWhole
  /\ phase # "idle" => prompt \in Prompts
  /\ phase \in {"fetch", "suffix"} => Prefilling
  /\ phase = "decode" => Decoding
  /\ FailedImportCostsNothing

-----------------------------------------------------------------------------
(* Prompts and their reusable prefixes.                                    *)
LEMMA PromptFacts ==
  ASSUME NEW p \in Prompts
  PROVE  p \in Seq(Tokens) /\ Len(p) \in Nat \ {0}
<1>1. p \in Seq(ToSet(p)) /\ p # Empty
  BY SessionAssumption
<1>2. ToSet(p) \subseteq Tokens
  BY DEF Tokens
<1>3. p \in Seq(Tokens)
  BY <1>1, <1>2, SeqMonotonic
<1> QED
  BY <1>1, <1>3, EmptySeq DEF Empty

LEMMA ReusableFacts ==
  ASSUME NEW n \in Nat
  PROVE  \E k \in Nat : /\ ReusableTokenCount(n) = k * BlockSize
                        /\ k * BlockSize \in Nat /\ k * BlockSize <= n
                        /\ n > 0 => k * BlockSize < n
<1>1. CASE n = 0
  <2>1. ReusableTokenCount(n) = 0 /\ 0 = 0 * BlockSize
    BY KvCacheAssumption, <1>1 DEF ReusableTokenCount
  <2> QED
    BY <1>1, <2>1
<1>2. CASE n # 0
  <2>1. PICK m \in Nat : n = m + 1
    <3>1. n - 1 \in Nat /\ n = (n - 1) + 1
      BY <1>2
    <3> QED
      BY <3>1
  <2>2. PICK k \in Nat : k = m \div BlockSize
    BY KvCacheAssumption, DivFloor
  <2>3. k * BlockSize <= m /\ k * BlockSize \in Nat
    BY KvCacheAssumption, <2>2, DivFloor, TimesOrder
  <2>4. ReusableTokenCount(n) = k * BlockSize
    <3>1. n - 1 = m
      BY <2>1
    <3> QED
      BY <1>2, <2>2, <3>1 DEF ReusableTokenCount
  <2> QED
    BY <2>1, <2>3, <2>4
<1> QED
  BY <1>1, <1>2

LEMMA PrefixLength ==
  ASSUME NEW p \in Prompts, NEW n, n = ReusableTokenCount(Len(p))
  PROVE  n \in Nat /\ n <= Len(p) /\ Len(SubSeq(p, 1, n)) = n
<1>1. p \in Seq(Tokens) /\ Len(p) \in Nat
  BY PromptFacts
<1>2. n \in Nat /\ n <= Len(p)
  BY <1>1, ReusableFacts
<1>3. \A i \in 1 .. n : p[i] \in Tokens
  BY <1>1, <1>2, ElementOfSeq
<1>4. Len(SubSeq(p, 1, n)) = IF 1 <= n THEN n - 1 + 1 ELSE 0
  BY <1>2, <1>3, SubSeqProperties
<1> QED
  BY <1>2, <1>4

(* A table has no more blocks than there are.                              *)
LEMMA TableBounded ==
  ASSUME NEW c, KvCacheType(c), Accounted(c)
  PROVE  Len(c.blocks) \in 0 .. NumBlocks /\ Len(c.blocks) * BlockSize \in 0 .. NumBlocks * BlockSize
<1>1. c.blocks \in Seq(Blocks) /\ Table(c) \subseteq Blocks
  BY TypeRecounts
<1>2. IsInjective(c.blocks)
  BY DEF Accounted
<1>3. Cardinality(Table(c)) = Len(c.blocks)
  BY <1>1, <1>2, DistinctLength DEF Table
<1>4. Cardinality(Blocks) = NumBlocks
  <2>1. 0 \in Int /\ NumBlocks - 1 \in Int /\ NumBlocks \in Nat
    BY BlocksFinite
  <2>2. Cardinality(0 .. NumBlocks - 1) =
          IF 0 > NumBlocks - 1 THEN 0 ELSE (NumBlocks - 1) - 0 + 1
    BY <2>1, FS_Interval
  <2> QED
    BY <2>1, <2>2 DEF Blocks
<1>5. Cardinality(Table(c)) <= Cardinality(Blocks)
  BY <1>1, BlocksFinite, FS_Subset
<1>6. PICK l \in Nat, m \in Nat : l = Len(c.blocks) /\ m = NumBlocks /\ l <= m
  BY <1>1, <1>3, <1>4, <1>5, BlocksFinite, LenProperties
<1>7. l * BlockSize \in Nat /\ m * BlockSize \in Nat /\ l * BlockSize <= m * BlockSize
  BY KvCacheAssumption, <1>6, TimesOrder
<1> QED
  BY <1>6, <1>7

-----------------------------------------------------------------------------
LEMMA NewCacheFacts ==
  /\ KvCacheType(NewKvCache) /\ Accounted(NewKvCache)
  /\ NewKvCache.registry = [path \in {} |-> 0]
  /\ NewKvCache.blocks = Empty /\ NewKvCache.len = 0
<1> DEFINE c == NewKvCache
           fr == [i \in 1 .. NumBlocks |-> NumBlocks - i]
           rc == [b \in Blocks |-> 0]
<1>1. /\ c.free = fr /\ c.ref_counts = rc /\ c.blocks = Empty /\ c.len = 0
      /\ c.registry = [path \in {} |-> 0]
  BY DEF NewKvCache
<1>2. NumBlocks \in Nat
  BY BlocksFinite
<1>3. \A i \in 1 .. NumBlocks : fr[i] = NumBlocks - i /\ NumBlocks - i \in Blocks
  BY <1>2 DEF Blocks
<1>4. fr \in [1 .. NumBlocks -> Blocks]
  BY <1>3
<1>5. fr \in Seq(Blocks) /\ DOMAIN fr = 1 .. NumBlocks
  <2> HIDE DEF fr
  <2> QED
    BY <1>2, <1>4, SeqDef
<1>6. IsInjective(fr)
  <2> SUFFICES ASSUME NEW i \in 1 .. NumBlocks, NEW j \in 1 .. NumBlocks, fr[i] = fr[j]
               PROVE  i = j
    BY <1>5 DEF IsInjective
  <2>1. NumBlocks - i = NumBlocks - j
    BY <1>3
  <2> QED
    BY <1>2, <2>1
<1>7. ToSet(fr) = Blocks
  <2>1. ASSUME NEW b \in Blocks PROVE b \in ToSet(fr)
    <3>1. NumBlocks - b \in 1 .. NumBlocks /\ NumBlocks - (NumBlocks - b) = b
      BY <1>2 DEF Blocks
    <3>2. fr[NumBlocks - b] = b
      BY <1>3, <3>1
    <3> QED
      BY <1>5, <3>1, <3>2 DEF ToSet
  <2>2. ToSet(fr) \subseteq Blocks
    BY <1>3, <1>5 DEF ToSet
  <2> QED
    BY <2>1, <2>2
<1>8. rc \in [Blocks -> Nat] /\ \A b \in Blocks : rc[b] = 0
  OBVIOUS
<1> HIDE DEF fr, rc
<1>9. KvCacheType(c)
  <2>1. Empty \in Seq(Blocks)
    BY EmptySeq DEF Empty
  <2>2. c = [free |-> fr, ref_counts |-> rc, blocks |-> Empty, len |-> 0,
             registry |-> c.registry, pool |-> c.pool]
    BY DEF NewKvCache, fr, rc
  <2> HIDE DEF c
  <2> QED
    BY <1>5, <1>8, <2>1, <2>2 DEF KvCacheType
<1>10. Table(c) = {} /\ Cached(c) = {} /\ IsInjective(c.blocks) /\ DOMAIN c.registry = {}
  BY <1>1 DEF Table, Cached, ToSet, Empty, IsInjective
<1> HIDE DEF c
<1>11. Accounted(c)
  BY <1>1, <1>6, <1>7, <1>8, <1>10 DEF Accounted
<1> QED
  BY <1>1, <1>9, <1>11 DEF c

LEMMA SessionInitInv == SessionInit => SessionInv
<1> SUFFICES ASSUME SessionInit PROVE SessionInv
  OBVIOUS
<1>1. KvCacheType(kv) /\ Accounted(kv) /\ kv.registry = [path \in {} |-> 0]
      /\ kv.blocks = Empty /\ kv.len = 0
  BY NewCacheFacts DEF SessionInit
<1>2. IsRegistry(kv.registry) /\ RegistryPrefixClosed
  BY <1>1 DEF IsRegistry, RegistryPrefixClosed
<1>3. kv.len <= TableCapacity(kv)
  <2>1. TableCapacity(kv) = 0 * BlockSize
    BY <1>1 DEF TableCapacity, Empty
  <2> QED
    BY KvCacheAssumption, <1>1, <2>1
<1>4. 0 \in 0 .. NumBlocks * BlockSize
  BY KvCacheAssumption, BlocksFinite, TimesOrder
<1>5. BundlesWhole /\ FailedImportCostsNothing
  BY DEF SessionInit, BundlesWhole, FailedImportCostsNothing
<1> QED
  BY <1>1, <1>2, <1>3, <1>4, <1>5 DEF SessionInit, SessionInv

-----------------------------------------------------------------------------
(* A fresh local match leaves a suffix to run.                             *)
LEMMA FreshFacts ==
  ASSUME NEW c, KvCacheType(c), Accounted(c), NEW p \in Prompts, NEW d, d = Fresh(c, p)
  PROVE  /\ FreshMatch(c, p, d)
         /\ d.len \in 0 .. NumBlocks * BlockSize /\ d.len < Len(p)
         /\ d.len = TableCapacity(d)
         /\ Len(d.blocks) = MatchedBlocks(d, p)
<1>1. p \in Seq(Tokens) /\ Len(p) \in Nat \ {0}
  BY PromptFacts
<1>2. FreshMatch(c, p, d)
  BY <1>1, FreshAccount DEF Fresh
<1>3. Len(d.blocks) * BlockSize \in 0 .. NumBlocks * BlockSize
  BY <1>2, TableBounded DEF FreshMatch
<1>4. PICK l \in Nat, m \in Nat : /\ l = Len(d.blocks) /\ m = MaxReusableBlocks(p)
                                  /\ l <= m /\ m * BlockSize < Len(p)
  <2>1. MaxReusableBlocks(p) \in Nat /\ MaxReusableBlocks(p) * BlockSize < Len(p)
    <3>1. Len(p) \div BlockSize \in Nat
      BY KvCacheAssumption, <1>1, DivFloor
    <3> QED
      BY <1>1, <3>1, MaxReusableFacts
  <2> QED
    BY <1>2, <2>1 DEF FreshMatch
<1>5. l * BlockSize <= m * BlockSize /\ l * BlockSize \in Nat /\ m * BlockSize \in Nat
  BY KvCacheAssumption, <1>4, TimesOrder
<1>6. d.len = l * BlockSize
  BY <1>2, <1>4 DEF FreshMatch
<1>7. d.len < Len(p)
  BY <1>1, <1>4, <1>5, <1>6
<1>8. Len(d.blocks) = MatchedBlocks(d, p)
  BY <1>2 DEF FreshMatch, MatchedBlocks
<1> QED
  BY <1>2, <1>3, <1>4, <1>6, <1>7, <1>8 DEF TableCapacity

LEMMA StartPrefillInv ==
  ASSUME SessionInv, NEW p \in Prompts, StartPrefill(p)
  PROVE  SessionInv'
<1>1. /\ kv' = Fresh(kv, p) /\ seq' = p /\ prompt' = p /\ reused' = kv'.len
      /\ phase' \in {"fetch", "suffix"} /\ imported' = FALSE
      /\ local_fits' = CanAllocateKv(kv', Len(p) - kv'.len)
      /\ UNCHANGED <<publishing, remote, outcome>>
  BY DEF StartPrefill, storeVars
<1>2. KvCacheType(kv) /\ Accounted(kv) /\ IsRegistry(kv.registry) /\ RegistryPrefixClosed
  BY DEF SessionInv
<1>3. /\ FreshMatch(kv, p, kv')
      /\ kv'.len \in 0 .. NumBlocks * BlockSize /\ kv'.len < Len(p)
      /\ kv'.len = TableCapacity(kv')
      /\ Len(kv'.blocks) = MatchedBlocks(kv', p)
  BY <1>1, <1>2, FreshFacts
<1>4. /\ KvCacheType(kv') /\ Accounted(kv') /\ kv'.registry = kv.registry
      /\ \A i \in 1 .. Len(kv'.blocks) : PathOf(p, i - 1) \in DOMAIN kv.registry
      /\ Table(kv') \subseteq Cached(kv')
  BY <1>3 DEF FreshMatch
<1>5. IsRegistry(kv'.registry) /\ RegistryPrefixClosed'
  BY <1>2, <1>4 DEF RegistryPrefixClosed
<1>6. Prefilling'
  BY <1>1, <1>3, <1>4 DEF Prefilling, TableCapacity
<1>7. BundlesWhole' /\ outcome' = outcome
  BY <1>1 DEF SessionInv, BundlesWhole
<1>8. FailedImportCostsNothing'
  BY <1>1 DEF FailedImportCostsNothing
<1>9. kv'.len <= TableCapacity(kv')
  BY <1>3
<1> QED
  BY <1>1, <1>3, <1>4, <1>5, <1>6, <1>7, <1>8, <1>9 DEF SessionInv

(* What a step that only moves the request on leaves as it was.            *)
LEMMA FetchNothingInv ==
  ASSUME SessionInv, FetchNothing
  PROVE  SessionInv'
<1>1. /\ phase = "fetch" /\ phase' = "suffix"
      /\ UNCHANGED <<kv, reused, imported, publishing, remote, seq, prompt, local_fits, outcome>>
  BY DEF FetchNothing, storeVars, requestVars
<1>2. Prefilling'
  BY <1>1 DEF SessionInv, Prefilling
<1>3. RegistryPrefixClosed' /\ BundlesWhole' /\ FailedImportCostsNothing'
  BY <1>1 DEF SessionInv, RegistryPrefixClosed, BundlesWhole, FailedImportCostsNothing
<1> QED
  BY <1>1, <1>2, <1>3 DEF SessionInv

(* Falling back from an import to a new local match finds what the first   *)
(* match found, and as many free blocks.                                   *)
LEMMA FallBackInv ==
  ASSUME SessionInv, NEW c, KvCacheType(c), Accounted(c), c.registry = kv.registry,
         NEW bundle, Importing(bundle), FallBack(c)
  PROVE  SessionInv'
<1>1. /\ phase = "fetch" /\ phase' = "suffix"
      /\ kv' = Fresh(c, prompt) /\ reused' = kv'.len
      /\ UNCHANGED <<imported, publishing, remote, seq, prompt, local_fits, outcome>>
  BY DEF Importing, FallBack, storeVars, requestVars
<1>2. /\ KvCacheType(kv) /\ Accounted(kv) /\ IsRegistry(kv.registry) /\ RegistryPrefixClosed
      /\ prompt \in Prompts /\ Prefilling
  BY <1>1 DEF SessionInv
<1>3. /\ FreshMatch(c, prompt, kv')
      /\ kv'.len \in 0 .. NumBlocks * BlockSize /\ kv'.len < Len(prompt)
      /\ kv'.len = TableCapacity(kv')
      /\ Len(kv'.blocks) = MatchedBlocks(kv', prompt)
  BY <1>1, <1>2, FreshFacts
<1>4. /\ KvCacheType(kv') /\ Accounted(kv') /\ kv'.registry = kv.registry
      /\ \A i \in 1 .. Len(kv'.blocks) : PathOf(prompt, i - 1) \in DOMAIN kv.registry
      /\ Table(kv') \subseteq Cached(kv')
  BY <1>3 DEF FreshMatch
<1>5. /\ ~imported /\ Table(kv) \subseteq Cached(kv)
      /\ Len(kv.blocks) = MatchedBlocks(kv, prompt)
      /\ local_fits <=> CanAllocateKv(kv, Len(prompt) - kv.len)
  BY <1>1, <1>2 DEF Prefilling
<1>6. Len(kv'.blocks) = Len(kv.blocks) /\ kv'.len = kv.len
  <2>1. Len(kv'.blocks) = Len(kv.blocks)
    BY <1>3, <1>4, <1>5 DEF MatchedBlocks
  <2> QED
    BY <1>2, <1>3, <2>1 DEF Prefilling, TableCapacity
<1>7. NumFree(kv') = NumFree(kv)
  <2>1. Cached(kv') = Cached(kv)
    BY <1>4 DEF Cached
  <2> QED
    BY <1>2, <1>4, <1>5, <2>1, SameFree
<1>8. CanAllocateKv(kv', Len(prompt) - kv'.len) <=> CanAllocateKv(kv, Len(prompt) - kv.len)
  BY <1>6, <1>7 DEF CanAllocateKv, Overflows, BlocksNeeded, TableCapacity
<1>9. Prefilling'
  <2>1. seq' = prompt'
    BY <1>1, <1>2 DEF Prefilling
  <2> QED
    BY <1>1, <1>3, <1>4, <1>5, <1>8, <2>1 DEF Prefilling, TableCapacity
<1>10. IsRegistry(kv'.registry) /\ RegistryPrefixClosed'
  BY <1>2, <1>4 DEF RegistryPrefixClosed
<1>11. BundlesWhole' /\ FailedImportCostsNothing'
  BY <1>1 DEF SessionInv, BundlesWhole, FailedImportCostsNothing
<1>12. kv'.len <= TableCapacity(kv')
  BY <1>3
<1> QED
  BY <1>1, <1>2, <1>3, <1>4, <1>9, <1>10, <1>11, <1>12 DEF SessionInv

LEMMA ImportRefusedInv ==
  ASSUME SessionInv, NEW b \in remote, ImportRefused(b)
  PROVE  SessionInv'
BY FallBackInv DEF ImportRefused, SessionInv

LEMMA ImportHasNoRoomInv ==
  ASSUME SessionInv, NEW b \in remote, ImportHasNoRoom(b)
  PROVE  SessionInv'
<1>1. /\ KvCacheType(ResetSequence(kv)) /\ Accounted(ResetSequence(kv))
      /\ ResetSequence(kv).registry = kv.registry
  BY ResetAccount DEF SessionInv
<1> QED
  BY <1>1, FallBackInv DEF ImportHasNoRoom

LEMMA ImportBreaksInv ==
  ASSUME SessionInv, NEW b \in remote, NEW n \in 0 .. NumBlocks, ImportBreaks(b, n)
  PROVE  SessionInv'
<1> DEFINE c == ImportFailsMidway(kv, b.items, n)
<1>1. KvCacheType(kv) /\ Accounted(kv)
  BY DEF SessionInv
<1>2. n \in 0 .. NumFree(ResetSequence(kv))
  <2>1. NumFree(ResetSequence(kv)) \in Nat
    BY <1>1, ResetAccount, TypeRecounts, LenProperties DEF NumFree
  <2>2. n \in Nat
    BY BlocksFinite
  <2>3. Len(b.items) \div BlockSize \in Nat
    <3>1. Len(b.items) = Len(b.tokens)
      BY DEF SessionInv, BundlesWhole
    <3>2. phase # "idle" /\ b.tokens = SubSeq(prompt, 1, ReusableTokenCount(Len(prompt)))
      BY DEF ImportBreaks, Importing, ReusablePrefix
    <3>3. Len(b.tokens) \in Nat
      BY <3>2, PrefixLength DEF SessionInv
    <3> QED
      BY KvCacheAssumption, <3>1, <3>3, DivFloor
  <2>4. /\ n <= Len(b.items) \div BlockSize
        /\ NumFree(ResetSequence(kv)) >= Len(b.items) \div BlockSize
    BY DEF ImportBreaks, ImportFits
  <2> QED
    BY <2>1, <2>2, <2>3, <2>4
<1>3. KvCacheType(c) /\ Accounted(c) /\ c.registry = kv.registry
  BY <1>1, <1>2, ImportFailsAccount
<1>4. Importing(b) /\ FallBack(c)
  BY DEF ImportBreaks
<1> HIDE DEF c
<1> QED
  BY <1>3, <1>4, FallBackInv

-----------------------------------------------------------------------------
(* Registering the first paths of some tokens keeps the registry closed.   *)
PathsClosed(r) ==
  \A p \in DOMAIN r : \A b \in 0 .. Len(p) \div BlockSize - 1 : PathOf(p, b) \in DOMAIN r

FirstPaths(tokens, n) == {PathOf(tokens, i - 1) : i \in 1 .. n}

LEMMA RegistryStaysClosed ==
  ASSUME NEW r, PathsClosed(r), NEW T, NEW tokens \in Seq(T),
         NEW n \in Nat, n * BlockSize <= Len(tokens),
         NEW s, DOMAIN s = DOMAIN r \cup FirstPaths(tokens, n)
  PROVE  PathsClosed(s)
<1> SUFFICES ASSUME NEW p \in DOMAIN s, NEW b \in 0 .. Len(p) \div BlockSize - 1
             PROVE  PathOf(p, b) \in DOMAIN s
  BY DEF PathsClosed
<1>1. CASE p \in DOMAIN r
  BY <1>1 DEF PathsClosed
<1>2. ASSUME NEW i \in 1 .. n, p = PathOf(tokens, i - 1) PROVE PathOf(p, b) \in DOMAIN s
  <2>1. i \in Nat /\ (i - 1) + 1 = i /\ i * BlockSize <= Len(tokens)
    <3>1. i * BlockSize <= n * BlockSize /\ i * BlockSize \in Nat /\ n * BlockSize \in Nat
      BY KvCacheAssumption, TimesOrder
    <3> QED
      BY <3>1, LenProperties
  <2>2. p = FirstBlocks(tokens, i)
    BY <1>2, <2>1 DEF PathOf, FirstBlocks
  <2>3. tokens \in Seq(T) /\ i \in Nat
    BY <2>1
  <2>4. /\ Len(p) \div BlockSize = i
        /\ \A k \in 1 .. i : PathOf(p, k - 1) = PathOf(tokens, k - 1)
    BY ONLY <2>1, <2>2, <2>3, PathsOfPrefix
  <2>5. b + 1 \in 1 .. i /\ b + 1 \in 1 .. n /\ (b + 1) - 1 = b
    BY <2>1, <2>4
  <2>6. PathOf(p, b) = PathOf(tokens, b)
    BY <2>4, <2>5
  <2> HIDE DEF PathOf
  <2> QED
    BY <2>5, <2>6 DEF FirstPaths
<1> QED
  BY <1>1, <1>2 DEF FirstPaths

LEMMA ImportSucceedsInv ==
  ASSUME SessionInv, NEW bundle \in remote, ImportSucceeds(bundle)
  PROVE  SessionInv'
<1>1. /\ phase = "fetch" /\ phase' = "suffix" /\ imported' = TRUE
      /\ kv' = ImportPrefixBundle(kv, prompt, bundle.items) /\ reused' = Len(bundle.items)
      /\ ImportFits(kv, bundle.items)
      /\ bundle.tokens = SubSeq(prompt, 1, ReusableTokenCount(Len(prompt)))
      /\ UNCHANGED <<publishing, remote, seq, prompt, local_fits, outcome>>
  BY DEF ImportSucceeds, Importing, ReusablePrefix, storeVars, requestVars
<1>2. /\ KvCacheType(kv) /\ Accounted(kv) /\ IsRegistry(kv.registry) /\ PathsClosed(kv.registry)
      /\ prompt \in Prompts /\ Prefilling
  BY <1>1 DEF SessionInv, RegistryPrefixClosed, PathsClosed
<1>3. prompt \in Seq(Tokens) /\ Len(prompt) \in Nat \ {0}
  BY <1>2, PromptFacts
<1>4. PICK n \in Nat : /\ ReusableTokenCount(Len(prompt)) = n * BlockSize
                       /\ n * BlockSize \in Nat /\ n * BlockSize < Len(prompt)
  BY <1>3, ReusableFacts
<1>5. Len(bundle.items) = n * BlockSize
  <2>1. Len(bundle.items) = Len(bundle.tokens)
    BY DEF SessionInv, BundlesWhole
  <2> QED
    BY <1>1, <1>2, <1>4, <2>1, PrefixLength
<1>6. n * BlockSize <= Len(prompt)
  BY <1>3, <1>4
<1>7. /\ KvCacheType(kv') /\ Accounted(kv') /\ IsRegistry(kv'.registry)
      /\ kv'.len = n * BlockSize /\ Len(kv'.blocks) = n
      /\ DOMAIN kv'.registry = DOMAIN kv.registry \cup FirstPaths(prompt, n)
  BY <1>1, <1>2, <1>3, <1>5, <1>6, ImportAccount DEF FirstPaths
<1>8. PathsClosed(kv'.registry)
  BY <1>2, <1>3, <1>6, <1>7, RegistryStaysClosed
<1>9. RegistryPrefixClosed'
  BY <1>8 DEF RegistryPrefixClosed, PathsClosed
<1>10. reused' \in 0 .. NumBlocks * BlockSize
  BY <1>1, <1>5, <1>7, TableBounded
<1>11. Prefilling'
  <2>1. /\ seq' = prompt' /\ kv'.len = reused' /\ reused' = Len(kv'.blocks) * BlockSize
        /\ reused' < Len(prompt')
    BY <1>1, <1>2, <1>4, <1>5, <1>7 DEF Prefilling
  <2>2. \A i \in 1 .. Len(kv'.blocks) : PathOf(prompt', i - 1) \in DOMAIN kv'.registry
    BY <1>1, <1>7 DEF FirstPaths
  <2> QED
    BY <1>1, <2>1, <2>2 DEF Prefilling
<1>12. BundlesWhole' /\ FailedImportCostsNothing'
  BY <1>1 DEF SessionInv, BundlesWhole, FailedImportCostsNothing
<1>13. kv'.len <= TableCapacity(kv')
  BY <1>4, <1>7 DEF TableCapacity
<1> QED
  BY <1>1, <1>2, <1>7, <1>9, <1>10, <1>11, <1>12, <1>13 DEF SessionInv

(* The blocks a step adds to the table were cached for nobody.             *)
NewBlocksPrivate ==
  \A i \in Len(kv.blocks) + 1 .. Len(kv'.blocks) : kv'.blocks[i] \notin Cached(kv)

(* The blocks of the whole prompt are mapped when it is registered.        *)
LEMMA PrefillSuffixInv ==
  ASSUME SessionInv, PrefillSuffix
  PROVE  SessionInv' /\ NewBlocksPrivate
<1> DEFINE n == Len(prompt) - reused
           d == Forward(kv, seq, n)
           full == Len(prompt) \div BlockSize
<1>1. /\ phase = "suffix" /\ phase' = "decode" /\ n > 0 /\ CanAllocateKv(kv, n)
      /\ kv' = RegisterPrefix(d, prompt)
      /\ UNCHANGED <<reused, imported, publishing, remote, seq, prompt, local_fits, outcome>>
  BY DEF PrefillSuffix, storeVars, requestVars
<1>2. /\ KvCacheType(kv) /\ Accounted(kv) /\ IsRegistry(kv.registry) /\ PathsClosed(kv.registry)
      /\ prompt \in Prompts /\ Prefilling
  BY <1>1 DEF SessionInv, RegistryPrefixClosed, PathsClosed
<1>3. prompt \in Seq(Tokens) /\ Len(prompt) \in Nat \ {0} /\ full \in Nat
  BY KvCacheAssumption, <1>2, PromptFacts, DivFloor
<1>4. /\ kv.len = reused /\ reused = Len(kv.blocks) * BlockSize /\ reused < Len(prompt)
      /\ seq = prompt /\ kv.len \in Nat /\ Len(kv.blocks) \in Nat
  BY <1>2, TypeRecounts, LenProperties DEF Prefilling
<1>5. n \in Nat /\ kv.len + n = Len(prompt)
  BY <1>3, <1>4
<1> HIDE DEF n
<1>6. Extends(kv, d) /\ d.len = Len(prompt) /\ TableCapacity(d) >= d.len
  BY <1>1, <1>2, <1>5, ForwardAccount
<1> HIDE DEF d
<1>7. /\ KvCacheType(d) /\ Accounted(d) /\ d.registry = kv.registry
      /\ Cached(d) = Cached(kv) /\ Len(kv.blocks) <= Len(d.blocks)
      /\ \A i \in Len(kv.blocks) + 1 .. Len(d.blocks) : d.blocks[i] \notin Cached(kv)
  BY <1>6 DEF Extends, Cached
<1>8. d.blocks \in Seq(Blocks) /\ Len(d.blocks) \in Nat /\ DOMAIN d.blocks = 1 .. Len(d.blocks)
  BY <1>7, TypeRecounts, LenProperties
<1>9. full <= Len(d.blocks) /\ full * BlockSize <= Len(prompt)
  <2>1. PICK l \in Nat, k \in Nat : l = Len(d.blocks) /\ k = full
    BY <1>3, <1>8
  <2>2. l * BlockSize >= Len(prompt) /\ l * BlockSize \in Nat
    BY KvCacheAssumption, <1>6, <2>1, TimesOrder DEF TableCapacity
  <2>3. k * BlockSize <= Len(prompt) /\ k * BlockSize \in Nat
    BY KvCacheAssumption, <1>3, <2>1, DivFloor, TimesOrder
  <2>4. k * BlockSize <= l * BlockSize
    BY <1>3, <2>2, <2>3
  <2>5. k <= l
    BY KvCacheAssumption, <2>4, TimesOrder
  <2> HIDE DEF full
  <2> QED
    BY <2>1, <2>3, <2>5
<1> HIDE DEF full
<1>10. \A i \in 1 .. Len(d.blocks) : d.blocks[i] \in Cached(kv) =>
         /\ i \in 1 .. Len(kv.blocks)
         /\ PathOf(prompt, i - 1) \in DOMAIN kv.registry
  <2> SUFFICES ASSUME NEW i \in 1 .. Len(d.blocks), d.blocks[i] \in Cached(kv)
               PROVE  /\ i \in 1 .. Len(kv.blocks)
                      /\ PathOf(prompt, i - 1) \in DOMAIN kv.registry
    OBVIOUS
  <2>1. i \in 1 .. Len(kv.blocks)
    <3>1. i \notin Len(kv.blocks) + 1 .. Len(d.blocks)
      BY <1>7
    <3> QED
      BY <1>4, <1>8, <3>1
  <2> QED
    BY <1>2, <2>1 DEF Prefilling
<1>11. /\ KvCacheType(kv') /\ Accounted(kv') /\ IsRegistry(kv'.registry)
       /\ kv'.blocks = d.blocks /\ kv'.len = d.len
       /\ DOMAIN kv'.registry = DOMAIN kv.registry \cup PathsOf(prompt)
       /\ Cached(kv') \subseteq Cached(kv) \cup {d.blocks[i] : i \in 1 .. full}
  <2>1. IsRegistry(d.registry) /\ Len(prompt) \div BlockSize <= Len(d.blocks)
    BY <1>2, <1>7, <1>9 DEF full
  <2>2. \A i \in 1 .. Len(prompt) \div BlockSize :
          d.blocks[i] \in Cached(d) => PathOf(prompt, i - 1) \in DOMAIN d.registry
    <3>1. \A i \in 1 .. full : i \in 1 .. Len(d.blocks)
      BY <1>3, <1>8, <1>9
    <3> QED
      BY <1>7, <1>10, <3>1 DEF full
  <2>3. /\ KvCacheType(kv') /\ Accounted(kv') /\ IsRegistry(kv'.registry)
        /\ kv'.blocks = d.blocks /\ kv'.len = d.len
        /\ DOMAIN kv'.registry = DOMAIN d.registry \cup PathsOf(prompt)
        /\ Cached(kv') \subseteq
             Cached(d) \cup {d.blocks[i] : i \in 1 .. Len(prompt) \div BlockSize}
    BY <1>1, <1>3, <1>7, <2>1, <2>2, RegisterAccount
  <2> QED
    BY <1>7, <2>3 DEF full
<1>12. PathsClosed(kv'.registry)
  <2>1. DOMAIN kv'.registry = DOMAIN kv.registry \cup FirstPaths(prompt, full)
    BY <1>11 DEF PathsOf, FirstPaths, full
  <2> QED
    BY <1>2, <1>3, <1>9, <2>1, RegistryStaysClosed
<1>13. RegistryPrefixClosed'
  BY <1>12 DEF RegistryPrefixClosed, PathsClosed
<1>14. ASSUME NEW i \in 1 .. Len(kv'.blocks), kv'.blocks[i] \in Cached(kv')
       PROVE  i * BlockSize <= Len(prompt)
  <2>1. i \in 1 .. Len(d.blocks) /\ i \in Nat
    BY <1>8, <1>11, <1>14
  <2>2. CASE d.blocks[i] \in Cached(kv)
    <3>1. i \in 1 .. Len(kv.blocks)
      BY <1>10, <2>1, <2>2
    <3>2. PICK l \in Nat : l = Len(kv.blocks) /\ i <= l
      BY <1>4, <3>1
    <3>3. i * BlockSize <= l * BlockSize /\ i * BlockSize \in Nat /\ l * BlockSize \in Nat
      BY KvCacheAssumption, <2>1, <3>2, TimesOrder
    <3> QED
      BY <1>3, <1>4, <3>2, <3>3
  <2>3. CASE \E j \in 1 .. full : d.blocks[i] = d.blocks[j]
    <3>1. PICK j \in 1 .. full : d.blocks[i] = d.blocks[j]
      BY <2>3
    <3>2. j \in 1 .. Len(d.blocks)
      BY <1>3, <1>8, <1>9
    <3>3. i = j
      BY <1>7, <1>8, <2>1, <3>1, <3>2 DEF Accounted, IsInjective
    <3>4. i <= full
      BY <1>3, <3>3
    <3>5. i * BlockSize <= full * BlockSize /\ i * BlockSize \in Nat /\ full * BlockSize \in Nat
      BY KvCacheAssumption, <1>3, <2>1, <3>4, TimesOrder
    <3> QED
      BY <1>3, <1>9, <3>5
  <2> QED
    BY <1>11, <1>14, <2>2, <2>3
<1>15. Decoding'
  <2>1. seq' = prompt /\ prompt' = prompt /\ kv'.len = Len(prompt) /\ Len(prompt) <= Len(prompt)
    BY <1>1, <1>3, <1>4, <1>6, <1>11
  <2> QED
    BY <1>3, <1>14, <2>1 DEF Decoding
<1>16. BundlesWhole' /\ FailedImportCostsNothing'
  BY <1>1 DEF SessionInv, BundlesWhole, FailedImportCostsNothing
<1>17. kv'.len <= TableCapacity(kv')
  BY <1>3, <1>6, <1>8, <1>11 DEF TableCapacity
<1>18. NewBlocksPrivate
  BY <1>7, <1>11 DEF NewBlocksPrivate
<1> QED
  BY <1>1, <1>2, <1>11, <1>13, <1>15, <1>16, <1>17, <1>18 DEF SessionInv

-----------------------------------------------------------------------------
(* A failed reservation ends the request; blocks may stay in the table.    *)
LEMMA ReservationFails ==
  ASSUME SessionInv, NEW d, Extends(kv, d), d.len = kv.len
  PROVE  /\ KvCacheType(d) /\ Accounted(d) /\ IsRegistry(d.registry)
         /\ d.registry = kv.registry /\ d.len <= TableCapacity(d)
<1>1. /\ KvCacheType(d) /\ Accounted(d) /\ d.registry = kv.registry
      /\ Len(kv.blocks) <= Len(d.blocks)
  BY DEF Extends
<1>2. KvCacheType(kv) /\ IsRegistry(kv.registry) /\ kv.len <= TableCapacity(kv)
  BY DEF SessionInv
<1>3. PICK l \in Nat, m \in Nat : l = Len(kv.blocks) /\ m = Len(d.blocks) /\ l <= m
  BY <1>1, <1>2, TypeRecounts, LenProperties
<1>4. l * BlockSize <= m * BlockSize /\ l * BlockSize \in Nat /\ m * BlockSize \in Nat
  BY KvCacheAssumption, <1>3, TimesOrder
<1>5. d.len \in Nat
  BY <1>1, TypeRecounts
<1>6. d.len <= TableCapacity(d)
  BY <1>2, <1>3, <1>4, <1>5 DEF TableCapacity
<1> QED
  BY <1>1, <1>2, <1>6

LEMMA PrefillFailsInv ==
  ASSUME SessionInv, PrefillFails
  PROVE  SessionInv'
<1> DEFINE n == Len(prompt) - reused
<1>1. /\ phase = "suffix" /\ phase' = "idle" /\ outcome' = "prefill failed"
      /\ n <= 0 \/ ~CanAllocateKv(kv, n)
      /\ kv' = IF n <= 0 THEN kv ELSE AllocateKvFails(kv, n)
      /\ UNCHANGED <<reused, publishing, remote, seq, prompt, local_fits, imported>>
  BY DEF PrefillFails, storeVars, historyVars
<1>2. /\ KvCacheType(kv) /\ Accounted(kv) /\ prompt \in Prompts /\ Prefilling
      /\ reused \in 0 .. NumBlocks * BlockSize /\ NumBlocks * BlockSize \in Nat
  BY <1>1, KvCacheAssumption, BlocksFinite, TimesOrder DEF SessionInv
<1>3. n > 0 /\ n = Len(prompt) - kv.len
  <2>1. kv.len = reused /\ reused < Len(prompt) /\ Len(prompt) \in Nat /\ reused \in Nat
    BY <1>2, PromptFacts DEF Prefilling
  <2> QED
    BY <2>1
<1>4. ~CanAllocateKv(kv, n) /\ kv' = AllocateKvFails(kv, n)
  <2>1. ~(n <= 0)
    <3>1. n \in Int
      BY <1>2, PromptFacts
    <3> HIDE DEF n
    <3> QED
      BY <1>3, <3>1
  <2> QED
    BY <1>1, <2>1
<1> HIDE DEF n
<1>5. /\ KvCacheType(kv') /\ Accounted(kv') /\ IsRegistry(kv'.registry)
      /\ kv'.registry = kv.registry /\ kv'.len <= TableCapacity(kv')
  BY <1>2, <1>4, AllocateKvFailsAccount, ReservationFails
<1>6. RegistryPrefixClosed'
  BY <1>5 DEF SessionInv, RegistryPrefixClosed
<1>7. local_fits => imported
  BY <1>2, <1>3, <1>4 DEF Prefilling
<1>8. FailedImportCostsNothing'
  BY <1>1, <1>7 DEF FailedImportCostsNothing
<1>9. BundlesWhole'
  BY <1>1 DEF SessionInv, BundlesWhole
<1> QED
  BY <1>1, <1>5, <1>6, <1>8, <1>9 DEF SessionInv

LEMMA DecodeInv ==
  ASSUME SessionInv, NEW t \in NextTokens, Decode(t)
  PROVE  SessionInv' /\ NewBlocksPrivate
<1>1. /\ phase = "decode" /\ phase' = "decode" /\ CanAllocateKv(kv, 1)
      /\ seq' = Append(seq, t) /\ kv' = Forward(kv, seq', 1)
      /\ UNCHANGED <<prompt, reused, publishing, remote, local_fits, imported, outcome>>
  BY DEF Decode, storeVars, historyVars
<1>2. /\ KvCacheType(kv) /\ Accounted(kv) /\ prompt \in Prompts /\ Decoding
      /\ IsRegistry(kv.registry)
  BY <1>1 DEF SessionInv
<1>3. Extends(kv, kv') /\ kv'.len = kv.len + 1 /\ TableCapacity(kv') >= kv'.len
  BY <1>1, <1>2, ForwardAccount
<1>4. /\ KvCacheType(kv') /\ Accounted(kv') /\ kv'.registry = kv.registry
      /\ Len(kv.blocks) <= Len(kv'.blocks)
      /\ \A i \in 1 .. Len(kv.blocks) : kv'.blocks[i] = kv.blocks[i]
      /\ \A i \in Len(kv.blocks) + 1 .. Len(kv'.blocks) : kv'.blocks[i] \notin Cached(kv)
  BY <1>3 DEF Extends
<1>5. t \in Tokens
  BY DEF Tokens
<1>6. /\ seq' \in Seq(Tokens) /\ Len(seq') = Len(seq) + 1
      /\ Len(seq) \in Nat /\ Len(prompt) \in Nat
  BY <1>1, <1>2, <1>5, AppendProperties, LenProperties, PromptFacts DEF Decoding
<1>7. ASSUME NEW i \in 1 .. Len(kv'.blocks), kv'.blocks[i] \in Cached(kv')
      PROVE  i * BlockSize <= Len(prompt)
  <2>1. Len(kv.blocks) \in Nat /\ Len(kv'.blocks) \in Nat
    BY <1>2, <1>4, TypeRecounts, LenProperties
  <2>2. kv'.blocks[i] \in Cached(kv)
    BY <1>4, <1>7 DEF Cached
  <2>3. i \in 1 .. Len(kv.blocks)
    <3>1. i \notin Len(kv.blocks) + 1 .. Len(kv'.blocks)
      BY <1>4, <2>2
    <3> QED
      BY <2>1, <3>1
  <2> QED
    BY <1>2, <1>4, <2>2, <2>3 DEF Decoding
<1>8. Decoding'
  <2>1. kv'.len = Len(seq') /\ Len(prompt') <= Len(seq')
    BY <1>1, <1>2, <1>3, <1>6 DEF Decoding
  <2> QED
    BY <1>1, <1>6, <1>7, <2>1 DEF Decoding
<1>9. RegistryPrefixClosed' /\ BundlesWhole' /\ FailedImportCostsNothing'
  BY <1>1, <1>4 DEF SessionInv, RegistryPrefixClosed, BundlesWhole, FailedImportCostsNothing
<1>10. kv'.len <= TableCapacity(kv')
  <2>1. TableCapacity(kv') \in Nat /\ kv'.len \in Nat
    BY KvCacheAssumption, <1>4, TypeRecounts, LenProperties, TimesOrder DEF TableCapacity
  <2> QED
    BY <1>3, <2>1
<1> QED
  BY <1>1, <1>2, <1>4, <1>8, <1>9, <1>10 DEF SessionInv, NewBlocksPrivate

LEMMA DecodeFailsInv ==
  ASSUME SessionInv, DecodeFails
  PROVE  SessionInv'
<1>1. /\ phase' = "idle" /\ outcome' = "decode failed"
      /\ kv' = AllocateKvFails(kv, 1)
      /\ UNCHANGED <<reused, publishing, remote, prompt>>
  BY DEF DecodeFails, storeVars, historyVars
<1>2. /\ KvCacheType(kv') /\ Accounted(kv') /\ IsRegistry(kv'.registry)
      /\ kv'.registry = kv.registry /\ kv'.len <= TableCapacity(kv')
  BY <1>1, AllocateKvFailsAccount, ReservationFails DEF SessionInv
<1>3. RegistryPrefixClosed' /\ BundlesWhole' /\ FailedImportCostsNothing'
  BY <1>1, <1>2 DEF SessionInv, RegistryPrefixClosed, BundlesWhole, FailedImportCostsNothing
<1> QED
  BY <1>1, <1>2, <1>3 DEF SessionInv

-----------------------------------------------------------------------------
LEMMA ExportLength ==
  ASSUME NEW c, NEW n \in Nat
  PROVE  Len(ExportPrefix(c, n)) = n
<1> DEFINE e == ExportPrefix(c, n)
           S == {e[i] : i \in 1 .. n}
<1>1. e \in [1 .. n -> S]
  BY DEF ExportPrefix
<1> HIDE DEF e, S
<1>2. e \in Seq(S) /\ DOMAIN e = 1 .. n
  BY <1>1, SeqDef
<1>3. Len(e) \in Nat /\ DOMAIN e = 1 .. Len(e)
  BY <1>2, LenProperties
<1> QED
  BY <1>2, <1>3 DEF e

LEMMA FinishInv ==
  ASSUME SessionInv, Finish
  PROVE  SessionInv'
<1> DEFINE b == Bundle(ReusablePrefix, ExportPrefix(kv, Len(ReusablePrefix)))
<1>1. /\ phase = "decode" /\ phase' = "idle" /\ outcome' = "done"
      /\ publishing' \in {publishing, publishing \cup {b}}
      /\ UNCHANGED <<kv, reused, remote, prompt>>
  BY DEF Finish
<1>2. Len(b.items) = Len(b.tokens)
  <2>1. prompt \in Prompts
    BY <1>1 DEF SessionInv
  <2>2. Len(ReusablePrefix) \in Nat
    BY <2>1, PrefixLength DEF ReusablePrefix
  <2> QED
    BY <2>2, ExportLength DEF Bundle
<1> HIDE DEF b
<1>3. BundlesWhole'
  BY <1>1, <1>2 DEF SessionInv, BundlesWhole
<1>4. RegistryPrefixClosed' /\ FailedImportCostsNothing'
  BY <1>1 DEF SessionInv, RegistryPrefixClosed, FailedImportCostsNothing
<1> QED
  BY <1>1, <1>3, <1>4 DEF SessionInv

(* Steps that touch only the bundles.                                      *)
LEMMA StoreStepInv ==
  ASSUME SessionInv, BundlesWhole',
         UNCHANGED <<kv, phase, reused, imported, seq, prompt, local_fits, outcome>>
  PROVE  SessionInv'
<1>1. Prefilling' <=> Prefilling
  BY DEF Prefilling
<1>2. Decoding' <=> Decoding
  BY DEF Decoding
<1>3. (RegistryPrefixClosed' <=> RegistryPrefixClosed)
      /\ (FailedImportCostsNothing' <=> FailedImportCostsNothing)
  BY DEF RegistryPrefixClosed, FailedImportCostsNothing
<1> QED
  BY <1>1, <1>2, <1>3 DEF SessionInv

LEMMA ExactBundleWhole ==
  ASSUME NEW p \in Prompts, NEW b, b = ExactBundle(SubSeq(p, 1, ReusableTokenCount(Len(p))))
  PROVE  Len(b.items) = Len(b.tokens)
<1> DEFINE s == SubSeq(p, 1, ReusableTokenCount(Len(p)))
           e == [i \in 1 .. Len(s) |-> KvOf(s, i - 1)]
           S == {e[i] : i \in 1 .. Len(s)}
<1>1. Len(s) \in Nat
  BY PrefixLength
<1>2. b.tokens = s /\ b.items = e
  BY DEF ExactBundle, Bundle
<1> HIDE DEF s
<1>3. e \in [1 .. Len(s) -> S] /\ DOMAIN e = 1 .. Len(s)
  OBVIOUS
<1> HIDE DEF e, S
<1>4. e \in Seq(S)
  BY <1>1, <1>3, SeqDef
<1>5. Len(e) \in Nat /\ DOMAIN e = 1 .. Len(e)
  BY <1>4, LenProperties
<1> QED
  BY <1>1, <1>2, <1>3, <1>5

LEMMA BundleStepInv ==
  ASSUME SessionInv,
         \/ \E b \in publishing : PublishBestEffort(b)
         \/ \E p \in Prompts : OtherEnginePublishes(p)
         \/ \E b \in remote : RemoteLoses(b)
  PROVE  SessionInv'
<1>1. CASE \E b \in publishing : PublishBestEffort(b)
  <2>1. BundlesWhole'
    BY <1>1 DEF SessionInv, BundlesWhole, PublishBestEffort
  <2> QED
    BY <1>1, <2>1, StoreStepInv DEF PublishBestEffort, requestVars
<1>2. CASE \E p \in Prompts : OtherEnginePublishes(p)
  <2>1. PICK p \in Prompts : OtherEnginePublishes(p)
    BY <1>2
  <2> DEFINE b == ExactBundle(SubSeq(p, 1, ReusableTokenCount(Len(p))))
  <2>2. Len(b.items) = Len(b.tokens)
    BY ExactBundleWhole
  <2>3. remote' = remote \cup {b} /\ publishing' = publishing
    BY <2>1 DEF OtherEnginePublishes
  <2> HIDE DEF b
  <2>4. BundlesWhole'
    BY <2>2, <2>3 DEF SessionInv, BundlesWhole
  <2> QED
    BY <2>1, <2>4, StoreStepInv DEF OtherEnginePublishes, requestVars
<1>3. CASE \E b \in remote : RemoteLoses(b)
  <2>1. BundlesWhole'
    BY <1>3 DEF SessionInv, BundlesWhole, RemoteLoses
  <2> QED
    BY <1>3, <2>1, StoreStepInv DEF RemoteLoses, requestVars
<1> QED
  BY <1>1, <1>2, <1>3

LEMMA ClearCacheInv ==
  ASSUME SessionInv, NEW order \in DrainOrders(kv), ClearCache(order)
  PROVE  SessionInv'
<1>1. /\ phase = "idle" /\ kv' = ClearPrefixCache(kv, order)
      /\ UNCHANGED <<phase, reused, imported, publishing, remote, seq, prompt, local_fits, outcome>>
  BY DEF ClearCache, storeVars, requestVars
<1>2. /\ KvCacheType(kv') /\ Accounted(kv')
      /\ kv'.registry = [path \in {} |-> 0] /\ kv'.blocks = kv.blocks /\ kv'.len = kv.len
  BY <1>1, ClearAccount DEF SessionInv
<1>3. IsRegistry(kv'.registry) /\ RegistryPrefixClosed'
  BY <1>2 DEF IsRegistry, RegistryPrefixClosed
<1>4. kv'.len <= TableCapacity(kv')
  BY <1>2 DEF SessionInv, TableCapacity
<1>5. BundlesWhole' /\ FailedImportCostsNothing'
  BY <1>1 DEF SessionInv, BundlesWhole, FailedImportCostsNothing
<1> QED
  BY <1>1, <1>2, <1>3, <1>4, <1>5 DEF SessionInv

LEMMA SessionStep == SessionInv /\ [SessionNext]_sessionVars => SessionInv'
<1> SUFFICES ASSUME SessionInv, [SessionNext]_sessionVars PROVE SessionInv'
  OBVIOUS
<1>1. ASSUME NEW p \in Prompts, StartPrefill(p) PROVE SessionInv'
  BY <1>1, StartPrefillInv
<1>2. CASE FetchNothing
  BY <1>2, FetchNothingInv
<1>3. ASSUME NEW b \in remote, ImportSucceeds(b) PROVE SessionInv'
  BY <1>3, ImportSucceedsInv
<1>4. ASSUME NEW b \in remote, ImportRefused(b) PROVE SessionInv'
  BY <1>4, ImportRefusedInv
<1>5. ASSUME NEW b \in remote, ImportHasNoRoom(b) PROVE SessionInv'
  BY <1>5, ImportHasNoRoomInv
<1>6. ASSUME NEW b \in remote, NEW n \in 0 .. NumBlocks, ImportBreaks(b, n) PROVE SessionInv'
  BY <1>6, ImportBreaksInv
<1>7. CASE PrefillSuffix
  BY <1>7, PrefillSuffixInv
<1>8. CASE PrefillFails
  BY <1>8, PrefillFailsInv
<1>9. ASSUME NEW t \in NextTokens, Decode(t) PROVE SessionInv'
  BY <1>9, DecodeInv
<1>10. CASE DecodeFails
  BY <1>10, DecodeFailsInv
<1>11. CASE Finish
  BY <1>11, FinishInv
<1>12. CASE \/ \E b \in publishing : PublishBestEffort(b)
            \/ \E p \in Prompts : OtherEnginePublishes(p)
            \/ \E b \in remote : RemoteLoses(b)
  BY <1>12, BundleStepInv
<1>13. ASSUME NEW order \in DrainOrders(kv), ClearCache(order) PROVE SessionInv'
  BY <1>13, ClearCacheInv
<1>14. CASE UNCHANGED sessionVars
  <2>1. UNCHANGED <<kv, phase, reused, imported, seq, prompt, local_fits, outcome>> /\ BundlesWhole'
    BY <1>14 DEF sessionVars, SessionInv, BundlesWhole
  <2> QED
    BY <2>1, StoreStepInv
<1> QED
  BY <1>1, <1>2, <1>3, <1>4, <1>5, <1>6, <1>7, <1>8, <1>9, <1>10, <1>11, <1>12, <1>13, <1>14
     DEF SessionNext, RequestStep

-----------------------------------------------------------------------------
(* What the invariant says.                                                *)
LEMMA SessionInvTypes == SessionInv => SessionTypeOK
<1> SUFFICES ASSUME SessionInv PROVE SessionTypeOK
  OBVIOUS
<1>1. /\ ToSet(kv.free) \subseteq Blocks /\ kv.ref_counts \in [Blocks -> Nat]
      /\ ToSet(kv.blocks) \subseteq Blocks /\ kv.len \in Nat
      /\ kv.blocks \in Seq(Blocks)
  BY TypeRecounts DEF SessionInv, Table
<1>2. \A p \in DOMAIN kv.registry : kv.registry[p] \in Blocks
  <2>1. Cached(kv) \subseteq Blocks
    BY DEF SessionInv, Accounted
  <2> QED
    BY <2>1 DEF Cached
<1>3. kv.len \in 0 .. TableCapacity(kv)
  <2>1. TableCapacity(kv) \in Nat
    BY KvCacheAssumption, <1>1, LenProperties, TimesOrder DEF TableCapacity
  <2>2. kv.len <= TableCapacity(kv)
    BY DEF SessionInv
  <2> QED
    BY <1>1, <2>1, <2>2
<1> QED
  BY <1>1, <1>2, <1>3 DEF SessionInv, SessionTypeOK

LEMMA SessionInvCounts == SessionInv => RefCountsExact /\ BlocksNotShared
<1> SUFFICES ASSUME SessionInv PROVE RefCountsExact /\ BlocksNotShared
  OBVIOUS
<1>1. RefCountsExact
  BY AccountCounts DEF SessionInv, RefCountsExact
<1>2. BlocksNotShared
  BY DEF SessionInv, Accounted, BlocksNotShared
<1> QED
  BY <1>1, <1>2

LEMMA SessionInvPhases == SessionInv => SuffixRemains /\ CacheTracksSequence
<1> SUFFICES ASSUME SessionInv PROVE SuffixRemains /\ CacheTracksSequence
  OBVIOUS
<1>1. SuffixRemains
  BY DEF SessionInv, Prefilling, SuffixRemains
<1>2. CacheTracksSequence
  BY DEF SessionInv, Decoding, CacheTracksSequence
<1> QED
  BY <1>1, <1>2

(* The slots between two lengths lie past every cached block of the table, *)
(* or in blocks the step took.                                             *)
LEMMA ReservedSlotsPrivate ==
  ASSUME SessionInv, NewBlocksPrivate, SessionInv',
         \A i \in 1 .. Len(kv.blocks) : kv'.blocks[i] \in Cached(kv) => i * BlockSize <= kv.len,
         NEW pos \in kv.len .. kv'.len - 1
  PROVE  BlockAt(kv', pos \div BlockSize) \notin Cached(kv)
<1>1. /\ kv.len \in Nat /\ kv'.len \in Nat
      /\ Len(kv.blocks) \in Nat /\ Len(kv'.blocks) \in Nat
      /\ kv'.len <= TableCapacity(kv')
  BY TypeRecounts, LenProperties DEF SessionInv
<1>2. pos \in Nat /\ kv.len <= pos /\ pos < kv'.len
  BY <1>1
<1>3. PICK q \in Nat, l \in Nat : q = pos \div BlockSize /\ l = Len(kv'.blocks)
  BY KvCacheAssumption, <1>1, <1>2, DivFloor
<1>4. pos < (q + 1) * BlockSize /\ (q + 1) * BlockSize \in Nat /\ l * BlockSize \in Nat
  BY KvCacheAssumption, <1>2, <1>3, DivFloor, TimesOrder
<1>5. pos < l * BlockSize
  BY <1>1, <1>2, <1>3, <1>4 DEF TableCapacity
<1>6. q < l
  BY KvCacheAssumption, <1>2, <1>3, <1>5, DivBound
<1>7. CASE q + 1 \in 1 .. Len(kv.blocks)
  <2>1. ~((q + 1) * BlockSize <= kv.len)
    BY <1>1, <1>2, <1>4
  <2> QED
    BY <1>3, <1>7, <2>1 DEF BlockAt
<1>8. CASE q + 1 \in Len(kv.blocks) + 1 .. Len(kv'.blocks)
  BY <1>3, <1>8 DEF BlockAt, NewBlocksPrivate
<1> QED
  BY <1>1, <1>3, <1>6, <1>7, <1>8

ReservesPrivate ==
  \A pos \in kv.len .. kv'.len - 1 :
    phase \in {"suffix", "decode"} /\ kv'.len > kv.len =>
      BlockAt(kv', pos \div BlockSize) \notin {kv.registry[p] : p \in DOMAIN kv.registry}

LEMMA PrefillReserves ==
  ASSUME SessionInv, PrefillSuffix
  PROVE  ReservesPrivate
<1>1. SessionInv' /\ NewBlocksPrivate
  BY PrefillSuffixInv
<1>2. Prefilling /\ KvCacheType(kv)
  BY DEF SessionInv, PrefillSuffix
<1>3. PICK l \in Nat : l = Len(kv.blocks) /\ kv.len = l * BlockSize
  BY <1>2, TypeRecounts, LenProperties DEF Prefilling
<1>4. \A i \in 1 .. Len(kv.blocks) : i * BlockSize <= kv.len
  BY KvCacheAssumption, <1>3, TimesOrder
<1> QED
  BY <1>1, <1>4, ReservedSlotsPrivate DEF ReservesPrivate, Cached

LEMMA DecodeReserves ==
  ASSUME SessionInv, NEW t \in NextTokens, Decode(t)
  PROVE  ReservesPrivate
<1>1. SessionInv' /\ NewBlocksPrivate
  BY DecodeInv
<1>2. Decoding /\ KvCacheType(kv) /\ Accounted(kv) /\ prompt \in Prompts
      /\ kv' = Forward(kv, seq', 1) /\ CanAllocateKv(kv, 1)
  BY DEF SessionInv, Decode
<1>3. \A i \in 1 .. Len(kv.blocks) : kv'.blocks[i] = kv.blocks[i]
  BY <1>2, ForwardAccount DEF Extends
<1>4. Len(seq) \in Nat /\ Len(prompt) \in Nat /\ BlockSize \in Nat
  BY KvCacheAssumption, <1>2, PromptFacts, LenProperties DEF Decoding
<1>5. \A i \in 1 .. Len(kv.blocks) :
        kv'.blocks[i] \in Cached(kv) => i * BlockSize <= kv.len
  <2> SUFFICES ASSUME NEW i \in 1 .. Len(kv.blocks), kv'.blocks[i] \in Cached(kv)
               PROVE  i * BlockSize <= kv.len
    OBVIOUS
  <2>1. i * BlockSize <= Len(prompt) /\ Len(prompt) <= kv.len /\ kv.len \in Nat
    BY <1>2, <1>3, <1>4 DEF Decoding
  <2>2. i * BlockSize \in Int
    BY <1>4
  <2> QED
    BY <1>4, <2>1, <2>2
<1> QED
  BY <1>1, <1>5, ReservedSlotsPrivate DEF ReservesPrivate, Cached

(* Every other step leaves the length alone in these phases.               *)
LEMMA SessionReserves ==
  ASSUME SessionInv, [SessionNext]_sessionVars
  PROVE  ReservesPrivate
<1>1. CASE PrefillSuffix
  BY <1>1, PrefillReserves
<1>2. ASSUME NEW t \in NextTokens, Decode(t) PROVE ReservesPrivate
  BY <1>2, DecodeReserves
<1>3. ASSUME phase \in {"suffix", "decode"} => kv'.len = kv.len
      PROVE  ReservesPrivate
  <2>1. kv.len \in Nat
    BY TypeRecounts DEF SessionInv
  <2> QED
    BY <1>3, <2>1 DEF ReservesPrivate
<1>4. CASE PrefillFails \/ DecodeFails
  <2>1. \A n, d : d = AllocateKvFails(kv, n) => d.len = kv.len
    BY AllocateKvFailsAccount DEF SessionInv
  <2>2. kv' \in {kv, AllocateKvFails(kv, Len(prompt) - reused), AllocateKvFails(kv, 1)}
    BY <1>4 DEF PrefillFails, DecodeFails
  <2>3. kv'.len = kv.len
    BY <2>1, <2>2
  <2> QED
    BY <1>3, <2>3
<1>5. CASE (\E p \in Prompts : StartPrefill(p)) \/ (\E order \in DrainOrders(kv) : ClearCache(order))
  BY <1>3, <1>5 DEF StartPrefill, ClearCache
<1>6. CASE \/ FetchNothing
           \/ \E b \in remote : ImportSucceeds(b)
           \/ \E b \in remote : ImportRefused(b)
           \/ \E b \in remote : ImportHasNoRoom(b)
           \/ \E b \in remote, n \in 0 .. NumBlocks : ImportBreaks(b, n)
  BY <1>3, <1>6 DEF FetchNothing, ImportSucceeds, ImportRefused, ImportHasNoRoom, ImportBreaks, Importing
<1>7. CASE \/ Finish
           \/ \E b \in publishing : PublishBestEffort(b)
           \/ \E p \in Prompts : OtherEnginePublishes(p)
           \/ \E b \in remote : RemoteLoses(b)
           \/ UNCHANGED sessionVars
  BY <1>3, <1>7 DEF Finish, PublishBestEffort, OtherEnginePublishes, RemoteLoses, sessionVars
<1> QED
  BY <1>1, <1>2, <1>4, <1>5, <1>6, <1>7 DEF SessionNext, RequestStep

-----------------------------------------------------------------------------
(* Whatever requests, imports and other engines do, the blocks stay        *)
(* accounted for and table, registry and prompt agree as the phase says.   *)
THEOREM SessionInvariant == SessionSpec => []SessionInv
BY SessionInitInv, SessionStep, PTL DEF SessionSpec

(* The cache and the request keep their types: block ids within the pool,  *)
(* and no more live positions than the table has slots (cache.rs, paged.rs)*)
THEOREM SessionTypes == SessionSpec => []SessionTypeOK
BY SessionInvariant, SessionInvTypes, PTL

(* However requests match, import, fail, roll back and reset, a block's    *)
(* reference count is the number of table places and registry entries that *)
(* hold it, and the free stack holds each unreferenced block once.         *)
THEOREM ReferencesCounted == SessionSpec => []RefCountsExact
BY SessionInvariant, SessionInvCounts, PTL

(* No block is mapped twice by the table or cached under two paths.        *)
THEOREM NoBlockShared == SessionSpec => []BlocksNotShared
BY SessionInvariant, SessionInvCounts, PTL

(* A cached block's whole path is cached: match_prefix, which stops at the *)
(* first miss, misses nothing that is there.                               *)
THEOREM PrefixesClosed == SessionSpec => []RegistryPrefixClosed
<1>1. SessionInv => RegistryPrefixClosed
  BY DEF SessionInv
<1> QED
  BY SessionInvariant, <1>1, PTL

(* A local match or an import leaves a suffix to run, and what the session *)
(* calls reused is what is live in the cache (cache.rs:110-111).           *)
THEOREM SuffixLeft == SessionSpec => []SuffixRemains
BY SessionInvariant, SessionInvPhases, PTL

(* While decoding, the cache holds exactly the tokens of the sequence, and *)
(* a block backs each of them.                                             *)
THEOREM CacheFollowsSequence == SessionSpec => []CacheTracksSequence
BY SessionInvariant, SessionInvPhases, PTL

(* A remote store that misses, or whose bundle is refused, finds no room   *)
(* or breaks half-way, fails no prompt that fits with the local match      *)
(* (manager.rs:149-150).                                                   *)
THEOREM FallbackIsFree == SessionSpec => []FailedImportCostsNothing
<1>1. SessionInv => FailedImportCostsNothing
  BY DEF SessionInv
<1> QED
  BY SessionInvariant, <1>1, PTL

(* A forward pass reserves no slot in a cached block, so reuse needs no    *)
(* copy-on-write.                                                          *)
THEOREM WritesStayPrivate == SessionSpec => ReservesOnlyPrivateBlocks
<1>1. SessionInv /\ [SessionNext]_sessionVars => [ReservesPrivate]_sessionVars
  BY SessionReserves
<1> QED
  BY SessionInvariant, <1>1, PTL DEF SessionSpec, ReservesOnlyPrivateBlocks, ReservesPrivate
=============================================================================
