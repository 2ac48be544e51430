----------------------------- MODULE SlabProofs -----------------------------
(***************************************************************************)
(* Proofs about the slab allocator, for any caches, any number of blocks   *)
(* and any threshold: the eight invariants that the runs slab and          *)
(* slab_blocks check, and that the allocator implements EntryPool.         *)
(*                                                                         *)
(* The inductive invariant IInv relates four things the code keeps in      *)
(* step by hand: the bits of a block, its num_free, the list the block is  *)
(* in, and block_used.  Which of them agree depends on how far a           *)
(* collection has come; Phases, Current and Waiting say so.                *)
(***************************************************************************)
EXTENDS Slab, SequenceTheorems, FiniteSetTheorems, TLAPS

-----------------------------------------------------------------------------
(* Arithmetic of the bit arrays.                                           *)

(* The least element that CHOOSE looks for is there: the initial segments  *)
(* of the naturals are well-founded by inclusion.                          *)
LEMMA LeastFacts ==
    ASSUME NEW S \in SUBSET Nat, S # {}
    PROVE  Least(S) \in S /\ \A y \in S : Least(S) <= y
  <1> DEFINE Segments == {0 .. n : n \in S}
  <1>1. Segments # {}
    OBVIOUS
  <1>2. Segments \subseteq FiniteSubsetsOf(Nat)
    <2>1. \A n \in S : 0 .. n \subseteq Nat /\ IsFiniteSet(0 .. n)
      BY FS_Interval
    <2> QED
      BY <2>1 DEF FiniteSubsetsOf
  <1>3. PICK x \in Segments : \A y \in Segments : <<y, x>> \notin StrictSubsetOrdering(Nat)
    <2> HIDE DEF Segments
    <2> QED
      BY <1>1, <1>2, FS_StrictSubsetOrderingWellFounded, WFMin
  <1>4. PICK m \in S : x = 0 .. m
    OBVIOUS
  <1>5. ASSUME NEW y \in S, y < m
        PROVE  FALSE
    <2>1. 0 .. y \in Segments /\ 0 .. y \subseteq 0 .. m /\ m \in 0 .. m /\ m \notin 0 .. y
      BY <1>5
    <2>2. <<0 .. y, 0 .. m>> \in StrictSubsetOrdering(Nat)
      BY <2>1 DEF StrictSubsetOrdering
    <2> QED
      BY <1>3, <1>4, <2>1, <2>2
  <1>6. \A y \in S : m <= y
    BY <1>5
  <1> QED
    BY <1>6 DEF Least

(* Products are ordered as their factors are.                              *)
LEMMA TimesMonotonic ==
    ASSUME NEW w \in Nat, NEW q \in Int, NEW k \in Int, q <= k
    PROVE  q * w <= k * w
  <1>1. k - q \in Nat
    OBVIOUS
  <1>2. (k - q) * w >= 0
    BY <1>1
  <1> QED
    BY <1>2

(* Division is determined by its result.                                   *)
LEMMA DivisionUnique ==
    ASSUME NEW w \in Nat \ {0}, NEW q \in Nat, NEW r \in 0 .. w - 1
    PROVE  (q * w + r) \div w = q /\ (q * w + r) % w = r
  <1> DEFINE n == q * w + r
             d == n \div w
             m == n % w
  <1>1. n \in Nat
    OBVIOUS
  <1>2. d \in Int /\ m \in 0 .. w - 1 /\ n = w * d + m
    BY <1>1
  <1> HIDE DEF d, m
  <1>3. ~ (d + 1 <= q)
    <2>1. d + 1 <= q => (d + 1) * w <= q * w
      BY <1>2, TimesMonotonic
    <2> QED
      BY <1>2, <2>1
  <1>4. ~ (q + 1 <= d)
    <2>1. q + 1 <= d => (q + 1) * w <= d * w
      BY <1>2, TimesMonotonic
    <2> QED
      BY <1>2, <2>1
  <1>5. d = q
    BY <1>2, <1>3, <1>4
  <1>6. m = r
    BY <1>2, <1>5
  <1> QED
    BY <1>5, <1>6 DEF d, m

(* num_entries in whole units and an excess.                               *)
LEMMA UnitsFacts ==
    ASSUME NEW c \in Caches
    PROVE  \E q \in Nat, r \in 1 .. BitsPerUnit - 1 :
             /\ NumEntries[c] = q * BitsPerUnit + r
             /\ NumEntries[c] % BitsPerUnit = r
             /\ Units(c) = q + 1
  <1> DEFINE n == NumEntries[c]
             w == BitsPerUnit
             q == n \div w
             r == n % w
  <1>1. n \in Nat /\ w \in Nat \ {0} /\ r # 0
    BY GeometryAssumption
  <1>2. q \in Int /\ r \in 0 .. w - 1 /\ n = w * q + r
    BY <1>1
  <1> HIDE DEF q, r
  <1>3. q \in Nat
    <2>1. q + 1 <= 0 => (q + 1) * w <= 0 * w
      BY <1>1, <1>2, TimesMonotonic
    <2> QED
      BY <1>1, <1>2, <2>1
  <1>4. n + w - 1 = (q + 1) * w + (r - 1) /\ n = q * w + r
    BY <1>1, <1>2, <1>3
  <1>5. (n + w - 1) \div w = q + 1
    <2>1. ((q + 1) * w + (r - 1)) \div w = q + 1
      <3>1. q + 1 \in Nat /\ r - 1 \in 0 .. w - 1
        BY <1>1, <1>2, <1>3
      <3> HIDE DEF w
      <3> QED
        BY <1>1, <3>1, DivisionUnique
    <2> QED
      BY <1>4, <2>1
  <1> QED
    BY <1>1, <1>2, <1>3, <1>4, <1>5 DEF Units, r

-----------------------------------------------------------------------------
(* Bit arrays.                                                             *)

(* The bits clear_block_used_bits leaves set are none of an entry, and     *)
(* used[0] = 1 overwrites them only where they share the first unit.       *)
LEMMA ClearedFacts ==
    ASSUME NEW c \in Caches
    PROVE  /\ ClearedBits(c) \in SUBSET Nat
           /\ ClearedBits(c) \cap Places(c) = {}
           /\ Units(c) \in Nat \ {0}
           /\ Units(c) # 1 => ClearedBits(c) \cap Unit(0) = {}
  <1>1. PICK q \in Nat, r \in 1 .. BitsPerUnit - 1 :
            /\ NumEntries[c] = q * BitsPerUnit + r
            /\ NumEntries[c] % BitsPerUnit = r
            /\ Units(c) = q + 1
    BY UnitsFacts
  <1>2. BitsPerUnit \in Nat \ {0}
    BY GeometryAssumption
  <1>3. Unit(Units(c) - 1) = q * BitsPerUnit .. q * BitsPerUnit + BitsPerUnit - 1
    BY <1>1 DEF Unit
  <1>4. \A p \in ClearedBits(c) : p \in Nat /\ p >= NumEntries[c]
    <2> SUFFICES ASSUME NEW p \in ClearedBits(c) PROVE p \in Nat /\ p >= NumEntries[c]
      OBVIOUS
    <2>1. /\ p \in q * BitsPerUnit .. q * BitsPerUnit + BitsPerUnit - 1
          /\ p % BitsPerUnit >= r
      BY <1>1, <1>3 DEF ClearedBits
    <2>2. q * BitsPerUnit \in Nat
      BY <1>2
    <2> DEFINE k == p - q * BitsPerUnit
    <2>3. k \in 0 .. BitsPerUnit - 1 /\ p = q * BitsPerUnit + k
      BY <1>2, <2>1, <2>2
    <2> HIDE DEF k
    <2>4. p % BitsPerUnit = k
      BY <1>2, <2>3, DivisionUnique
    <2> QED
      BY <1>1, <1>2, <2>1, <2>2, <2>3, <2>4
  <1>5. Units(c) # 1 => ClearedBits(c) \cap Unit(0) = {}
    <2> SUFFICES ASSUME q >= 1, NEW p \in ClearedBits(c), p \in Unit(0) PROVE FALSE
      BY <1>1
    <2>1. 1 * BitsPerUnit <= q * BitsPerUnit
      BY <1>2, TimesMonotonic
    <2>2. p <= BitsPerUnit - 1
      BY <1>2 DEF Unit
    <2>3. q * BitsPerUnit \in Nat /\ p \in Nat /\ p >= q * BitsPerUnit + r
      BY <1>1, <1>2, <1>4
    <2> QED
      BY <1>2, <2>1, <2>2, <2>3
  <1>6. ClearedBits(c) \cap Places(c) = {}
    BY <1>1, <1>4, GeometryAssumption DEF Places
  <1> QED
    BY <1>1, <1>4, <1>5, <1>6

(* Every entry has its bit in some unit.                                   *)
LEMMA PlaceUnit ==
    ASSUME NEW c \in Caches, NEW p \in Places(c)
    PROVE  \E u \in 0 .. Units(c) - 1 : p \in Unit(u)
  <1>1. PICK q \in Nat, r \in 1 .. BitsPerUnit - 1 :
            NumEntries[c] = q * BitsPerUnit + r /\ Units(c) = q + 1
    BY UnitsFacts
  <1>2. BitsPerUnit \in Nat \ {0} /\ p \in Nat /\ p < NumEntries[c]
    BY GeometryAssumption DEF Places
  <1> DEFINE u == p \div BitsPerUnit
             m == p % BitsPerUnit
  <1>3. u \in Int /\ m \in 0 .. BitsPerUnit - 1 /\ p = BitsPerUnit * u + m
    BY <1>2
  <1> HIDE DEF u, m
  <1>4. u >= 0
    <2>1. u + 1 <= 0 => (u + 1) * BitsPerUnit <= 0 * BitsPerUnit
      BY <1>2, <1>3, TimesMonotonic
    <2> QED
      BY <1>2, <1>3, <2>1
  <1>5. u <= q
    <2>1. q + 1 <= u => (q + 1) * BitsPerUnit <= u * BitsPerUnit
      BY <1>2, <1>3, TimesMonotonic
    <2> QED
      BY <1>1, <1>2, <1>3, <2>1
  <1> QED
    BY <1>1, <1>2, <1>3, <1>4, <1>5 DEF Unit

(* And every bit of a unit is that of an entry, or one of those left set.  *)
LEMMA UnitPlaces ==
    ASSUME NEW c \in Caches, NEW u \in 0 .. Units(c) - 1, NEW p \in Unit(u)
    PROVE  p \in Nat /\ (p \in Places(c) \/ p \in ClearedBits(c))
  <1>1. PICK q \in Nat, r \in 1 .. BitsPerUnit - 1 :
            /\ NumEntries[c] = q * BitsPerUnit + r
            /\ NumEntries[c] % BitsPerUnit = r
            /\ Units(c) = q + 1
    BY UnitsFacts
  <1>2. BitsPerUnit \in Nat \ {0} /\ u \in Nat /\ u <= q
    BY <1>1, GeometryAssumption
  <1>3. u * BitsPerUnit \in Nat /\ p \in u * BitsPerUnit .. u * BitsPerUnit + BitsPerUnit - 1
    BY <1>2 DEF Unit
  <1>4. CASE u = q
    <2> DEFINE k == p - q * BitsPerUnit
    <2>1. k \in 0 .. BitsPerUnit - 1 /\ p = q * BitsPerUnit + k
      BY <1>2, <1>3, <1>4
    <2> HIDE DEF k
    <2>2. p % BitsPerUnit = k
      BY <1>2, <2>1, DivisionUnique
    <2>3. k >= r => p \in ClearedBits(c)
      BY <1>1, <1>3, <1>4, <2>2 DEF ClearedBits, Unit
    <2>4. k < r => p \in Places(c)
      BY <1>1, <1>2, <1>3, <1>4, <2>1 DEF Places
    <2> QED
      BY <1>3, <2>1, <2>3, <2>4
  <1>5. CASE u + 1 <= q
    <2>1. (u + 1) * BitsPerUnit <= q * BitsPerUnit
      BY <1>2, <1>5, TimesMonotonic
    <2> QED
      BY <1>1, <1>2, <1>3, <2>1 DEF Places
  <1> QED
    BY <1>2, <1>4, <1>5

(* If an entry is free then bitset_find_free finds one: not a bit past the *)
(* entries, neither where they are still set nor where used[0] = 1 has     *)
(* cleared them.                                                           *)
LEMMA FoundFacts ==
    ASSUME NEW c \in Caches, NEW b \in Blocks,
           nextFree[b] \in 0 .. Units(c) - 1,
           \E p \in Places(c) : p \notin used[b],
           Units(c) # 1 => ClearedBits(c) \subseteq used[b]
    PROVE  /\ HasClear(c, b)
           /\ FoundUnit(c, b) \in 0 .. Units(c) - 1
           /\ FoundPlace(c, b) \in Places(c)
           /\ FoundPlace(c, b) \notin used[b]
  <1> DEFINE N == Units(c)
             Looked(k) == (nextFree[b] + k) % N
             K == {k \in 0 .. N - 1 : ClearIn(b, Looked(k)) # {}}
             f == FoundUnit(c, b)
  <1>1. N \in Nat \ {0}
    BY ClearedFacts
  <1>2. PICK p \in Places(c) : p \notin used[b]
    OBVIOUS
  <1>3. PICK u \in 0 .. N - 1 : p \in Unit(u)
    BY PlaceUnit
  <1>4. HasClear(c, b)
    BY <1>2, <1>3 DEF HasClear, ClearIn
  <1>5. \E k \in 0 .. N - 1 : Looked(k) = u
    <2>1. CASE nextFree[b] <= u
      <3> DEFINE k == u - nextFree[b]
      <3>1. k \in 0 .. N - 1 /\ nextFree[b] + k = 0 * N + u
        BY <1>1, <2>1
      <3>2. (0 * N + u) % N = u
        <4> HIDE DEF N
        <4> QED
          BY <1>1, DivisionUnique
      <3> QED
        BY <3>1, <3>2
    <2>2. CASE nextFree[b] > u
      <3> DEFINE k == u - nextFree[b] + N
      <3>1. k \in 0 .. N - 1 /\ nextFree[b] + k = 1 * N + u
        BY <1>1, <2>2
      <3>2. (1 * N + u) % N = u
        <4> HIDE DEF N
        <4> QED
          BY <1>1, DivisionUnique
      <3> QED
        BY <3>1, <3>2
    <2> QED
      BY <1>1, <2>1, <2>2
  <1>6. K # {} /\ K \subseteq Nat
    <2>1. ClearIn(b, u) # {}
      BY <1>2, <1>3 DEF ClearIn
    <2>2. PICK k \in 0 .. N - 1 : Looked(k) = u
      BY <1>5
    <2>3. ClearIn(b, Looked(k)) # {}
      BY <2>1, <2>2
    <2>4. k \in K
      BY <2>3
    <2>5. K \subseteq 0 .. N - 1
      OBVIOUS
    <2> HIDE DEF K
    <2> QED
      BY <1>1, <2>4, <2>5
  <1>7. Least(K) \in K
    <2> HIDE DEF K
    <2> QED
      BY <1>6, LeastFacts
  <1>8. f = Looked(Least(K))
    BY DEF FoundUnit
  <1>9. ClearIn(b, f) # {} /\ f \in 0 .. N - 1
    <2>1. \A k \in 0 .. N - 1 : Looked(k) \in 0 .. N - 1
      BY <1>1
    <2> QED
      BY <1>7, <1>8, <2>1
  <1> HIDE DEF N, K, f
  <1>10. ClearIn(b, f) \subseteq Nat
    BY <1>9, UnitPlaces DEF ClearIn, N
  <1>11. /\ FoundPlace(c, b) \in ClearIn(b, f)
         /\ \A y \in ClearIn(b, f) : FoundPlace(c, b) <= y
    BY <1>9, <1>10, LeastFacts DEF FoundPlace, f
  <1>12. FoundPlace(c, b) \in Places(c)
    <2>1. CASE N = 1
      <3>1. u = f
        BY <1>1, <1>9, <2>1
      <3>2. FoundPlace(c, b) <= p /\ FoundPlace(c, b) \in Nat
        BY <1>2, <1>3, <1>10, <1>11, <3>1 DEF ClearIn
      <3> QED
        BY <3>2, GeometryAssumption DEF Places
    <2>2. CASE N # 1
      BY <1>9, <1>11, <2>2, UnitPlaces DEF ClearIn, N
    <2> QED
      BY <2>1, <2>2
  <1> QED
    BY <1>4, <1>9, <1>11, <1>12 DEF ClearIn, f, N

-----------------------------------------------------------------------------
(* The invariant.                                                          *)

Distinct(s) == \A j, k \in DOMAIN s : s[j] = s[k] => j = k

(* The blocks in the two lists of a cache, and those s_cleanup_blocks has  *)
(* taken out of the lists of the cache it is at.                           *)
Listed(c) == SeqBlocks(partial[c]) \cup SeqBlocks(full[c])
Hand      == SeqBlocks(todo) \cup ({best} \ {NoBlock})

(* No list holds a block twice, and no two lists of a cache the same one.  *)
Shape ==
    /\ \A c \in Caches : /\ Distinct(partial[c]) /\ Distinct(full[c])
                         /\ SeqBlocks(partial[c]) \cap SeqBlocks(full[c]) = {}
                         /\ Listed(c) \cap Hand = {}
    /\ Distinct(freeBlocks) /\ Distinct(todo) /\ best \notin SeqBlocks(todo)

(* A carved block belongs to one cache or to the free list.                *)
Owned ==
    /\ \A c, d \in Caches : c # d => BlocksOf(c) \cap BlocksOf(d) = {}
    /\ \A c \in Caches : BlocksOf(c) \cap SeqBlocks(freeBlocks) = {}
    /\ \A b \in Blocks :
          b <= carved <=> b \in SeqBlocks(freeBlocks) \/ \E c \in Caches : b \in BlocksOf(c)

(* Where s_cleanup_blocks is: only known caches have blocks, and it holds  *)
(* blocks only while it is at a cache.                                     *)
Phases ==
    /\ pc # "sweep" => rest = << >>
    /\ rest = << >> => todo = << >> /\ best = NoBlock
    /\ pc = "idle" => marked = {} /\ request = NoCache
    /\ request # NoCache => Known(request)
    /\ \A k \in DOMAIN rest : Known(rest[k])
    /\ \A c \in Caches : ~Known(c) => Listed(c) = {}

(* The entries whose bits are to be set.                                   *)
Current == IF pc = "idle" THEN held ELSE marked

(* The bits of a block of cache c.  Those past the entries may be clear    *)
(* only in a block of one unit that was allocated from since the last      *)
(* clear_used_bits.                                                        *)
BlockSound(c, b) ==
    /\ numFree[b] = Cardinality(Places(c) \ used[b])
    /\ used[b] \cap Places(c) = {p \in Places(c) : <<c, b, p>> \in Current}
    /\ used[b] \subseteq Places(c) \cup ClearedBits(c)
    /\ pc # "idle" \/ Units(c) # 1 => ClearedBits(c) \subseteq used[b]
    /\ nextFree[b] \in 0 .. Units(c) - 1

BitsSound == \A c \in Caches : \A b \in BlocksOf(c) : BlockSound(c, b)

(* Entries handed out lie in blocks of their cache; during the sweep this  *)
(* is left to the marked ones.                                             *)
HeldOwned ==
    /\ \A e \in held : e[2] <= carved
    /\ \A e \in marked : e[2] \in BlocksOf(e[1])
    /\ pc # "sweep" => \A e \in held : e[2] \in BlocksOf(e[1])

(* The lists of a cache match the counts, but while the program marks, and *)
(* while the cache waits for s_cleanup_blocks to come to it.               *)
Sorted(c) ==
    /\ \A b \in SeqBlocks(partial[c]) : numFree[b] \in 1 .. NumEntries[c] - 1
    /\ \A b \in SeqBlocks(full[c]) : numFree[b] = 0
Waiting(c) == \E k \in DOMAIN rest : k # 1 /\ rest[k] = c

Sorting ==
    /\ pc # "mark" => \A c \in Caches : ~Waiting(c) => Sorted(c)
    /\ best # NoBlock => numFree[best] \in 1 .. NumEntries[Head(rest)] - 1

IInv == /\ TypeOK
        /\ Shape
        /\ Owned
        /\ Phases
        /\ BitsSound
        /\ HeldOwned
        /\ Sorting
        /\ FreeBlocksClean
        /\ BlockUsedExact

-----------------------------------------------------------------------------
(* Lists as sets of blocks.                                                *)

LEMMA SeqBlocksFacts ==
    ASSUME NEW S, NEW s \in Seq(S)
    PROVE  /\ SeqBlocks(s) \subseteq S
           /\ \A b : In(b, s) <=> b \in SeqBlocks(s)
           /\ s = << >> <=> SeqBlocks(s) = {}
  <1>1. Len(s) \in Nat /\ DOMAIN s = 1 .. Len(s) /\ \A k \in 1 .. Len(s) : s[k] \in S
    BY LenProperties, ElementOfSeq
  <1>2. s # << >> => 1 \in DOMAIN s
    BY <1>1, EmptySeq
  <1>3. SeqBlocks(s) \subseteq S
    BY <1>1 DEF SeqBlocks
  <1>4. \A b : In(b, s) <=> b \in SeqBlocks(s)
    BY DEF SeqBlocks, In
  <1>5. s # << >> => SeqBlocks(s) # {}
    BY <1>2 DEF SeqBlocks
  <1>6. s = << >> => SeqBlocks(s) = {}
    BY DEF SeqBlocks
  <1> QED
    BY <1>3, <1>4, <1>5, <1>6

LEMMA EmptyBlocks == SeqBlocks(<< >>) = {} /\ Distinct(<< >>)
  BY DEF SeqBlocks, Distinct

(* SLIST_INSERT_HEAD.                                                      *)
LEMMA ConsBlocks ==
    ASSUME NEW S, NEW b \in S, NEW s \in Seq(S)
    PROVE  /\ <<b>> \o s \in Seq(S)
           /\ SeqBlocks(<<b>> \o s) = {b} \cup SeqBlocks(s)
           /\ Distinct(s) /\ b \notin SeqBlocks(s) => Distinct(<<b>> \o s)
  <1> DEFINE t == <<b>> \o s
  <1>1. <<b>> \in Seq(S) /\ Len(<<b>>) = 1 /\ <<b>>[1] = b
    OBVIOUS
  <1>2. /\ t \in Seq(S)
        /\ Len(t) = 1 + Len(s)
        /\ \A k \in 1 .. 1 + Len(s) : t[k] = IF k <= 1 THEN <<b>>[k] ELSE s[k - 1]
    BY <1>1, ConcatProperties
  <1>3. Len(s) \in Nat /\ DOMAIN s = 1 .. Len(s) /\ DOMAIN t = 1 .. 1 + Len(s)
    BY <1>2, LenProperties
  <1> HIDE DEF t
  <1>4. /\ t[1] = b /\ 1 \in DOMAIN t
        /\ \A k \in DOMAIN s : k + 1 \in DOMAIN t /\ t[k + 1] = s[k]
        /\ \A k \in DOMAIN t : k = 1 \/ (k - 1 \in DOMAIN s /\ t[k] = s[k - 1])
    BY <1>1, <1>2, <1>3
  <1>5. SeqBlocks(t) = {b} \cup SeqBlocks(s)
    BY <1>4 DEF SeqBlocks
  <1>6. ASSUME Distinct(s), b \notin SeqBlocks(s) PROVE Distinct(t)
    <2> SUFFICES ASSUME NEW j \in DOMAIN t, NEW k \in DOMAIN t, t[j] = t[k] PROVE j = k
      BY DEF Distinct
    <2>1. \A i \in DOMAIN s : s[i] # b
      BY <1>6 DEF SeqBlocks
    <2>2. CASE j = 1 \/ k = 1
      BY <1>4, <2>1, <2>2
    <2>3. CASE j # 1 /\ k # 1
      <3>1. j - 1 \in DOMAIN s /\ k - 1 \in DOMAIN s /\ s[j - 1] = s[k - 1]
        BY <1>4, <2>3
      <3>2. j - 1 = k - 1
        BY <1>6, <3>1 DEF Distinct
      <3> QED
        BY <1>3, <3>2
    <2> QED
      BY <2>2, <2>3
  <1> QED
    BY <1>2, <1>5, <1>6 DEF t

(* The rest of a list after its first block.                               *)
LEMMA TailBlocks ==
    ASSUME NEW S, NEW s \in Seq(S), s # << >>
    PROVE  /\ Head(s) \in S /\ Head(s) \in SeqBlocks(s)
           /\ Tail(s) \in Seq(S)
           /\ SeqBlocks(s) = {Head(s)} \cup SeqBlocks(Tail(s))
           /\ Distinct(s) => Distinct(Tail(s)) /\ Head(s) \notin SeqBlocks(Tail(s))
           /\ \A k \in DOMAIN Tail(s) : k + 1 \in DOMAIN s /\ Tail(s)[k] = s[k + 1]
  <1>1. /\ Head(s) = s[1] /\ s[1] \in S /\ Tail(s) \in Seq(S)
        /\ Len(s) \in Nat \ {0} /\ DOMAIN s = 1 .. Len(s)
        /\ DOMAIN Tail(s) = 1 .. Len(s) - 1
        /\ \A k \in 1 .. Len(s) - 1 : Tail(s)[k] = s[k + 1]
    BY HeadTailProperties, LenProperties, EmptySeq
  <1> DEFINE t == Tail(s)
  <1> HIDE DEF t
  <1>2. /\ \A k \in DOMAIN t : k + 1 \in DOMAIN s /\ t[k] = s[k + 1]
        /\ \A k \in DOMAIN s : k = 1 \/ (k - 1 \in DOMAIN t /\ s[k] = t[k - 1])
    BY <1>1 DEF t
  <1>3. SeqBlocks(s) = {s[1]} \cup SeqBlocks(t)
    BY <1>1, <1>2 DEF SeqBlocks
  <1>4. Distinct(s) => Distinct(t) /\ s[1] \notin SeqBlocks(t)
    <2> SUFFICES ASSUME Distinct(s) PROVE Distinct(t) /\ s[1] \notin SeqBlocks(t)
      OBVIOUS
    <2>1. \A j, k \in DOMAIN t : t[j] = t[k] => j = k
      <3> SUFFICES ASSUME NEW j \in DOMAIN t, NEW k \in DOMAIN t, t[j] = t[k] PROVE j = k
        OBVIOUS
      <3>1. j + 1 = k + 1
        BY <1>2 DEF Distinct
      <3> QED
        BY <1>1, <3>1 DEF t
    <2>2. \A k \in DOMAIN t : t[k] # s[1]
      <3> SUFFICES ASSUME NEW k \in DOMAIN t, t[k] = s[1] PROVE FALSE
        OBVIOUS
      <3>1. k + 1 = 1
        BY <1>1, <1>2 DEF Distinct
      <3> QED
        BY <1>1, <3>1 DEF t
    <2> QED
      BY <2>1, <2>2 DEF Distinct, SeqBlocks
  <1> QED
    BY <1>1, <1>2, <1>3, <1>4 DEF t, SeqBlocks

(* blocks followed by full_blocks, as s_cleanup_blocks goes over them.     *)
LEMMA ConcatBlocks ==
    ASSUME NEW S, NEW s \in Seq(S), NEW t \in Seq(S)
    PROVE  /\ s \o t \in Seq(S)
           /\ SeqBlocks(s \o t) = SeqBlocks(s) \cup SeqBlocks(t)
           /\ Distinct(s) /\ Distinct(t) /\ SeqBlocks(s) \cap SeqBlocks(t) = {}
                 => Distinct(s \o t)
  <1> DEFINE u == s \o t
  <1>1. /\ u \in Seq(S) /\ Len(u) = Len(s) + Len(t)
        /\ \A i \in 1 .. Len(s) + Len(t) :
              u[i] = IF i <= Len(s) THEN s[i] ELSE t[i - Len(s)]
    BY ConcatProperties
  <1>2. /\ Len(s) \in Nat /\ Len(t) \in Nat /\ DOMAIN s = 1 .. Len(s)
        /\ DOMAIN t = 1 .. Len(t) /\ DOMAIN u = 1 .. Len(s) + Len(t)
    BY <1>1, LenProperties
  <1> HIDE DEF u
  <1>3. /\ \A k \in DOMAIN s : k \in DOMAIN u /\ u[k] = s[k]
        /\ \A k \in DOMAIN t : k + Len(s) \in DOMAIN u /\ u[k + Len(s)] = t[k]
        /\ \A k \in DOMAIN u : \/ k \in DOMAIN s /\ u[k] = s[k]
                               \/ k - Len(s) \in DOMAIN t /\ u[k] = t[k - Len(s)]
    BY <1>1, <1>2
  <1>4. SeqBlocks(u) = SeqBlocks(s) \cup SeqBlocks(t)
    BY <1>3 DEF SeqBlocks
  <1>5. ASSUME Distinct(s), Distinct(t), SeqBlocks(s) \cap SeqBlocks(t) = {}
        PROVE  Distinct(u)
    <2> SUFFICES ASSUME NEW j \in DOMAIN u, NEW k \in DOMAIN u, u[j] = u[k] PROVE j = k
      BY DEF Distinct
    <2>1. \A i \in DOMAIN s, l \in DOMAIN t : s[i] # t[l]
      BY <1>5 DEF SeqBlocks
    <2>2. \/ j \in DOMAIN s /\ k \in DOMAIN s /\ s[j] = s[k]
          \/ /\ j - Len(s) \in DOMAIN t /\ k - Len(s) \in DOMAIN t
             /\ t[j - Len(s)] = t[k - Len(s)]
      BY <1>3, <2>1
    <2>3. j = k \/ j - Len(s) = k - Len(s)
      BY <1>5, <2>2 DEF Distinct
    <2> QED
      BY <1>2, <2>3
  <1> QED
    BY <1>1, <1>4, <1>5 DEF u

-----------------------------------------------------------------------------
(* What the invariant says of the blocks of a cache.                       *)

AllBlocks == UNION {BlocksOf(c) : c \in Caches}

LEMMA BlocksFacts ==
    ASSUME TypeOK
    PROVE  /\ IsFiniteSet(Blocks)
           /\ \A c \in Caches : /\ partial[c] \in Seq(Blocks) /\ full[c] \in Seq(Blocks)
                                /\ SeqBlocks(partial[c]) \subseteq Blocks
                                /\ SeqBlocks(full[c]) \subseteq Blocks
                                /\ Listed(c) \subseteq BlocksOf(c)
                                /\ BlocksOf(c) \subseteq Blocks
                                /\ rest = << >> => BlocksOf(c) = Listed(c)
                                /\ rest # << >> => BlocksOf(c) =
                                      Listed(c) \cup (IF c = Head(rest) THEN Hand ELSE {})
           /\ IsFiniteSet(AllBlocks) /\ AllBlocks \subseteq Blocks
           /\ rest # << >> => Head(rest) \in Caches /\ Tail(rest) \in Seq(Caches)
           /\ SeqBlocks(freeBlocks) \subseteq Blocks
           /\ SeqBlocks(todo) \subseteq Blocks /\ Hand \subseteq Blocks
  <1>1. IsFiniteSet(Blocks)
    BY BoundsAssumption, FS_Interval DEF Blocks
  <1>2. \A c \in Caches : partial[c] \in Seq(Blocks) /\ full[c] \in Seq(Blocks)
    BY DEF TypeOK
  <1>3. \A c \in Caches : /\ SeqBlocks(partial[c]) \subseteq Blocks
                          /\ SeqBlocks(full[c]) \subseteq Blocks
    BY <1>2, SeqBlocksFacts
  <1>4. SeqBlocks(freeBlocks) \subseteq Blocks /\ SeqBlocks(todo) \subseteq Blocks
    BY SeqBlocksFacts DEF TypeOK
  <1>5. Hand \subseteq Blocks
    BY <1>4 DEF Hand, TypeOK
  <1>6. \A c \in Caches : /\ Listed(c) \subseteq BlocksOf(c)
                          /\ BlocksOf(c) \subseteq Blocks
                          /\ rest = << >> => BlocksOf(c) = Listed(c)
                          /\ rest # << >> => BlocksOf(c) =
                                Listed(c) \cup (IF c = Head(rest) THEN Hand ELSE {})
    BY <1>3, <1>5 DEF BlocksOf, Listed, Hand
  <1>7. IsFiniteSet(AllBlocks) /\ AllBlocks \subseteq Blocks
    <2>1. AllBlocks \subseteq Blocks
      BY <1>6 DEF AllBlocks
    <2> QED
      BY <1>1, <2>1, FS_Subset
  <1>8. rest # << >> => Head(rest) \in Caches /\ Tail(rest) \in Seq(Caches)
    BY HeadTailProperties DEF TypeOK
  <1> QED
    BY <1>1, <1>2, <1>3, <1>4, <1>5, <1>6, <1>7, <1>8

(* num_free lies between 0 and num_entries, and its ends mean that the     *)
(* block is full or has no entry in use.                                   *)
LEMMA EntryFacts ==
    ASSUME NEW e \in Entries
    PROVE  /\ e[1] \in Caches /\ e[2] \in Blocks /\ e[3] \in Places(e[1]) /\ e[3] \in Nat
           /\ e = <<e[1], e[2], e[3]>>
  <1>1. PICK c \in Caches : e \in {c} \X Blocks \X Places(c)
    BY DEF Entries
  <1>2. e[1] = c /\ e[2] \in Blocks /\ e[3] \in Places(c) /\ e = <<e[1], e[2], e[3]>>
    BY <1>1
  <1>3. e[3] \in Nat
    <2>1. Places(c) \subseteq Nat
      BY DEF Places
    <2> QED
      BY <1>2, <2>1
  <1> QED
    BY <1>2, <1>3

LEMMA PlacesCount ==
    ASSUME NEW c \in Caches
    PROVE  IsFiniteSet(Places(c)) /\ Cardinality(Places(c)) = NumEntries[c]
  <1> DEFINE n == NumEntries[c]
  <1>1. n \in Nat /\ n >= 2
    BY GeometryAssumption
  <1>2. Places(c) = 0 .. n - 1
    BY DEF Places
  <1> HIDE DEF n
  <1>3. 0 \in Int /\ n - 1 \in Int /\ ~(0 > n - 1) /\ n - 1 - 0 + 1 = n
    BY <1>1
  <1>4. IsFiniteSet(0 .. n - 1) /\ Cardinality(0 .. n - 1) = n
    BY <1>3, FS_Interval
  <1> QED
    BY <1>2, <1>4 DEF n

LEMMA CountFacts ==
    ASSUME TypeOK, BitsSound, NEW c \in Caches, NEW b \in BlocksOf(c)
    PROVE  /\ numFree[b] \in 0 .. NumEntries[c]
           /\ numFree[b] = 0 <=> Places(c) \subseteq used[b]
           /\ numFree[b] = NumEntries[c] <=> Places(c) \cap used[b] = {}
           /\ IsFiniteSet(Places(c) \ used[b])
  <1>1. NumEntries[c] \in Nat /\ NumEntries[c] >= 2
    BY GeometryAssumption
  <1>2. IsFiniteSet(Places(c)) /\ Cardinality(Places(c)) = NumEntries[c]
    BY PlacesCount
  <1> DEFINE free == Places(c) \ used[b]
  <1>3. numFree[b] = Cardinality(free)
    BY DEF BitsSound, BlockSound
  <1>4. /\ IsFiniteSet(free) /\ Cardinality(free) <= NumEntries[c]
        /\ Cardinality(free) = NumEntries[c] <=> free = Places(c)
    BY <1>2, FS_Subset, FS_CardinalityType
  <1>5. Cardinality(free) \in Nat /\ (Cardinality(free) = 0 <=> free = {})
    BY <1>4, FS_CardinalityType, FS_EmptySet
  <1> QED
    BY <1>1, <1>3, <1>4, <1>5

-----------------------------------------------------------------------------
(* A step that gives block b to cache c as s_alloc does: AllocFree,        *)
(* AllocCarve and EndGCThenCarve.                                          *)
Untyped == /\ Shape
           /\ Owned
           /\ Phases
           /\ BitsSound
           /\ HeldOwned
           /\ Sorting
           /\ FreeBlocksClean
           /\ BlockUsedExact

(* Whichever way s_alloc gets its block, the first unit and the bits past  *)
(* the entries come out the same.                                          *)
InstalledBits(c) == (ClearedBits(c) \ Unit(0)) \cup {0}

LEMMA InstalledFacts ==
    ASSUME NEW c \in Caches
    PROVE  /\ InstalledBits(c) \in SUBSET Nat
           /\ InstalledBits(c) \cap Places(c) = {0}
           /\ Cardinality(Places(c) \ InstalledBits(c)) = NumEntries[c] - 1
           /\ InstalledBits(c) \subseteq Places(c) \cup ClearedBits(c)
           /\ Units(c) # 1 => ClearedBits(c) \subseteq InstalledBits(c)
  <1>1. NumEntries[c] \in Nat /\ NumEntries[c] >= 2 /\ 0 \in Places(c)
    BY GeometryAssumption DEF Places
  <1>2. Places(c) \ InstalledBits(c) = Places(c) \ {0}
    BY ClearedFacts DEF InstalledBits
  <1>3. Cardinality(Places(c) \ {0}) = NumEntries[c] - 1
    <2>1. IsFiniteSet(Places(c)) /\ Cardinality(Places(c)) = NumEntries[c]
      BY PlacesCount
    <2> QED
      BY <1>1, <2>1, FS_RemoveElement
  <1> QED
    BY <1>1, <1>2, <1>3, ClearedFacts DEF InstalledBits

LEMMA AddBlock ==
    ASSUME IInv, TypeOK',
           NEW c \in Caches, NEW b \in Blocks, NEW free \in Nat,
           Known(c), Install(c, b, free),
           free = NumEntries[c] => used[b] = ClearedBits(c),
           \A d \in Caches : b \notin BlocksOf(d),
           pc # "mark", rest = << >>,
           pc' = "idle", held' = Current \cup {<<c, b, 0>>}, marked' = {},
           request' = NoCache, UNCHANGED <<caches, full, sweepVars>>,
           Distinct(freeBlocks'),
           SeqBlocks(freeBlocks') = SeqBlocks(freeBlocks) \ {b},
           carved <= carved',
           \A x \in Blocks : x <= carved' <=> x <= carved \/ x = b,
           blockUsed' = Cardinality(AllBlocks) + 1
    PROVE  Untyped'
  <1> USE DEF IInv
  <1>1. /\ partial' = [partial EXCEPT ![c] = <<b>> \o @]
        /\ nextFree' = [nextFree EXCEPT ![b] = 0]
        /\ numFree' = [numFree EXCEPT ![b] = NumEntries[c] - 1]
        /\ used' = [used EXCEPT ![b] = InstalledBits(c)]
    BY DEF Install, InstalledBits
  <1>2. /\ rest' = << >> /\ todo' = todo /\ best' = best /\ caches' = caches /\ full' = full
        /\ todo = << >> /\ best = NoBlock
    BY DEF sweepVars, Phases
  <1>3. /\ used'[b] = InstalledBits(c) /\ numFree'[b] = NumEntries[c] - 1 /\ nextFree'[b] = 0
        /\ \A x \in Blocks \ {b} : /\ used'[x] = used[x] /\ numFree'[x] = numFree[x]
                                   /\ nextFree'[x] = nextFree[x]
    BY <1>1 DEF TypeOK
  <1>4. /\ SeqBlocks(partial'[c]) = {b} \cup SeqBlocks(partial[c])
        /\ Distinct(partial'[c])
        /\ \A d \in Caches \ {c} : partial'[d] = partial[d]
    <2>1. partial[c] \in Seq(Blocks) /\ b \notin SeqBlocks(partial[c]) /\ Distinct(partial[c])
      BY BlocksFacts DEF Shape, Listed
    <2>2. partial'[c] = <<b>> \o partial[c] /\ \A d \in Caches \ {c} : partial'[d] = partial[d]
      BY <1>1 DEF TypeOK
    <2> QED
      BY <2>1, <2>2, ConsBlocks
  <1>5. \A d \in Caches : /\ Listed(d)' = Listed(d) \cup (IF d = c THEN {b} ELSE {})
                          /\ BlocksOf(d)' = BlocksOf(d) \cup (IF d = c THEN {b} ELSE {})
                          /\ Listed(d) = BlocksOf(d)
    BY <1>2, <1>4 DEF Listed, BlocksOf
  <1>6. Hand' = {} /\ Hand = {}
    BY <1>2, EmptyBlocks DEF Hand
  <1>7. \A d \in Caches, x \in Blocks : \A p :
            x # b => (<<d, x, p>> \in Current' <=> <<d, x, p>> \in Current)
    BY DEF Current
  <1>8. \A d \in Caches : \A p : <<d, b, p>> \in Current' <=> d = c /\ p = 0
    <2>1. \A e \in Current : e[2] \in BlocksOf(e[1]) /\ e[1] \in Caches
      <3>1. Current \subseteq held /\ held \subseteq Entries
        BY DEF Current, TypeOK
      <3>2. \A e \in Current : e[2] \in BlocksOf(e[1])
        BY DEF Current, HeldOwned
      <3>3. \A e \in Entries : e[1] \in Caches
        BY EntryFacts
      <3> QED
        BY <3>1, <3>2, <3>3
    <2>2. \A d \in Caches : \A p : <<d, b, p>> \notin Current
      BY <2>1
    <2> QED
      BY <2>2 DEF Current
  <1>9. Shape'
    <2>1. \A d \in Caches : /\ Distinct(partial[d])' /\ Distinct(full[d])'
                            /\ (SeqBlocks(partial[d]) \cap SeqBlocks(full[d]) = {})'
                            /\ (Listed(d) \cap Hand = {})'
      BY <1>2, <1>4, <1>5, <1>6 DEF Shape, Listed
    <2>2. Distinct(freeBlocks') /\ Distinct(todo') /\ best' \notin SeqBlocks(todo')
      BY <1>2, EmptyBlocks
    <2> QED
      BY <2>1, <2>2 DEF Shape
  <1>10. Owned'
    <2>1. \A d, e \in Caches : d # e => BlocksOf(d)' \cap BlocksOf(e)' = {}
      BY <1>5 DEF Owned
    <2>2. \A d \in Caches : BlocksOf(d)' \cap SeqBlocks(freeBlocks') = {}
      BY <1>5 DEF Owned
    <2>3. \A x \in Blocks : x <= carved' <=>
             x \in SeqBlocks(freeBlocks') \/ \E d \in Caches : x \in BlocksOf(d)'
      BY <1>5 DEF Owned
    <2> QED
      BY <2>1, <2>2, <2>3 DEF Owned
  <1>11. Phases'
    <2>1. \A d \in Caches : ~Known(d)' => Listed(d)' = {}
      BY <1>2, <1>5 DEF Phases, Known
    <2> QED
      BY <1>2, <2>1, EmptySeq DEF Phases
  <1>12. BitsSound'
    <2> SUFFICES ASSUME NEW d \in Caches, NEW x \in BlocksOf(d)' PROVE BlockSound(d, x)'
      BY DEF BitsSound
    <2>1. CASE x = b
      <3>1. d = c
        BY <1>5, <2>1
      <3>2. used'[b] \cap Places(c) = {p \in Places(c) : <<c, b, p>> \in Current'}
        BY <1>3, <1>8, InstalledFacts
      <3>3. 0 \in 0 .. Units(c) - 1
        BY ClearedFacts
      <3>4. /\ numFree'[b] = Cardinality(Places(c) \ used'[b])
            /\ used'[b] \subseteq Places(c) \cup ClearedBits(c)
            /\ Units(c) # 1 => ClearedBits(c) \subseteq used'[b]
        BY <1>3, InstalledFacts
      <3> QED
        BY <1>3, <2>1, <3>1, <3>2, <3>3, <3>4 DEF BlockSound
    <2>2. CASE x # b
      <3>1. BlockSound(d, x) /\ x \in Blocks
        BY <1>5, <2>2, BlocksFacts DEF BitsSound
      <3> QED
        BY <1>3, <1>7, <2>2, <3>1 DEF BlockSound
    <2> QED
      BY <2>1, <2>2
  <1>13. HeldOwned'
    <2>1. \A e \in Current : e[2] \in BlocksOf(e[1])' /\ e[2] <= carved'
      <3> SUFFICES ASSUME NEW e \in Current PROVE e[2] \in BlocksOf(e[1])' /\ e[2] <= carved'
        OBVIOUS
      <3>1. e \in held /\ e[1] \in Caches /\ e[2] \in Blocks /\ e[2] \in BlocksOf(e[1])
        <4>1. e \in held /\ held \subseteq Entries
          BY DEF Current, TypeOK
        <4>2. e[2] \in BlocksOf(e[1])
          BY DEF Current, HeldOwned
        <4> QED
          BY <4>1, <4>2, EntryFacts
      <3>2. e[2] <= carved
        BY <3>1 DEF HeldOwned
      <3> QED
        BY <1>5, <3>1, <3>2
    <2>2. b \in BlocksOf(c)' /\ b <= carved'
      BY <1>5
    <2> QED
      BY <2>1, <2>2 DEF HeldOwned
  <1>14. Sorting'
    <2>1. \A d \in Caches : ~Waiting(d) /\ Sorted(d)
      BY EmptySeq DEF Sorting, Waiting
    <2>2. \A d \in Caches : Sorted(d)'
      <3> SUFFICES ASSUME NEW d \in Caches PROVE Sorted(d)'
        OBVIOUS
      <3>1. \A x \in SeqBlocks(partial'[d]) \ {b} : numFree'[x] \in 1 .. NumEntries[d] - 1
        <4>1. \A x \in SeqBlocks(partial'[d]) \ {b} : x \in SeqBlocks(partial[d]) /\ x \in Blocks
          BY <1>4, BlocksFacts
        <4> QED
          BY <1>3, <2>1, <4>1 DEF Sorted
      <3>2. b \in SeqBlocks(partial'[d]) => numFree'[b] \in 1 .. NumEntries[d] - 1
        <4>1. b \in SeqBlocks(partial'[d]) => d = c
          BY <1>4, BlocksFacts DEF Listed
        <4> QED
          BY <1>3, <4>1, GeometryAssumption
      <3>3. \A x \in SeqBlocks(full'[d]) : x # b /\ x \in Blocks /\ numFree[x] = 0
        BY <1>2, <2>1, BlocksFacts DEF Listed, Sorted
      <3> QED
        BY <1>3, <3>1, <3>2, <3>3 DEF Sorted
    <2> QED
      BY <1>2, <2>2 DEF Sorting
  <1>15. FreeBlocksClean'
    <2>1. \A x \in SeqBlocks(freeBlocks') : x # b /\ x \in Blocks /\ x \in SeqBlocks(freeBlocks)
      BY BlocksFacts
    <2> QED
      BY <1>3, <2>1 DEF FreeBlocksClean
  <1>16. BlockUsedExact'
    <2>1. AllBlocks' = AllBlocks \cup {b} /\ b \notin AllBlocks
      BY <1>5 DEF AllBlocks
    <2>2. Cardinality(AllBlocks') = Cardinality(AllBlocks) + 1
      BY <2>1, BlocksFacts, FS_AddElement
    <2> QED
      BY <2>2, BlocksFacts, FS_CardinalityType DEF BlockUsedExact, AllBlocks
  <1> QED
    BY <1>9, <1>10, <1>11, <1>12, <1>13, <1>14, <1>15, <1>16 DEF Untyped

LEMMA InstallType ==
    ASSUME TypeOK, NEW c \in Caches, NEW b \in Blocks, NEW free \in Nat,
           Install(c, b, free)
    PROVE  /\ partial' \in [Caches -> Seq(Blocks)]
           /\ used' \in [Blocks -> SUBSET Nat]
           /\ numFree' \in [Blocks -> Nat] /\ nextFree' \in [Blocks -> Nat]
           /\ <<c, b, 0>> \in Entries
  <1>1. <<b>> \o partial[c] \in Seq(Blocks)
    BY ConsBlocks DEF TypeOK
  <1>2. NumEntries[c] - 1 \in Nat /\ 0 \in Places(c)
    BY GeometryAssumption DEF Places
  <1>3. used' = [used EXCEPT ![b] =
            ((IF free = NumEntries[c] THEN used[b] ELSE ClearedBits(c)) \ Unit(0)) \cup {0}]
    BY DEF Install
  <1>4. used[b] \in SUBSET Nat /\ ClearedBits(c) \in SUBSET Nat
    BY ClearedFacts DEF TypeOK
  <1>5. <<c, b, 0>> \in Entries
    BY <1>2 DEF Entries
  <1>6. used' \in [Blocks -> SUBSET Nat]
    <2> DEFINE new == ((IF free = NumEntries[c] THEN used[b] ELSE ClearedBits(c)) \ Unit(0))
                        \cup {0}
    <2>1. new \in SUBSET Nat
      BY <1>4
    <2>2. used' = [used EXCEPT ![b] = new]
      BY <1>3
    <2> HIDE DEF new
    <2> QED
      BY <2>1, <2>2 DEF TypeOK
  <1>7. partial' \in [Caches -> Seq(Blocks)]
    BY <1>1 DEF Install, TypeOK
  <1>8. numFree' \in [Blocks -> Nat] /\ nextFree' \in [Blocks -> Nat]
    BY <1>2 DEF Install, TypeOK
  <1> QED
    BY <1>5, <1>6, <1>7, <1>8

(* A step of s_alloc that takes a block of the free list.                  *)
LEMMA AllocFreeStep ==
    ASSUME IInv, NEW c \in Caches, AllocFree(c)
    PROVE  IInv'
  <1> USE DEF IInv
  <1> DEFINE b == Head(freeBlocks)
             free == numFree[b]
  <1>1. /\ pc = "idle" /\ Known(c) /\ freeBlocks # << >>
        /\ Install(c, b, free)
        /\ held' = held \cup {<<c, b, 0>>}
        /\ freeBlocks' = Tail(freeBlocks)
        /\ blockUsed' = blockUsed + 1
        /\ UNCHANGED <<caches, full, carved, threshold, gcVars>>
    BY DEF AllocFree, NeedsBlock
  <1>2. /\ b \in Blocks /\ b \in SeqBlocks(freeBlocks)
        /\ Tail(freeBlocks) \in Seq(Blocks)
        /\ SeqBlocks(freeBlocks) = {b} \cup SeqBlocks(Tail(freeBlocks))
        /\ Distinct(Tail(freeBlocks)) /\ b \notin SeqBlocks(Tail(freeBlocks))
    BY <1>1, TailBlocks DEF TypeOK, Shape
  <1>3. free \in Nat
    BY <1>2 DEF TypeOK
  <1>4. /\ rest = << >> /\ marked = {} /\ request = NoCache
        /\ UNCHANGED <<pc, request, marked, sweepVars>>
    BY <1>1 DEF Phases, gcVars
  <1> HIDE DEF b, free
  <1>5. TypeOK'
    <2>1. held' \subseteq Entries /\ marked' = {}
      BY <1>1, <1>2, <1>3, <1>4, InstallType DEF TypeOK
    <2>2. /\ partial' \in [Caches -> Seq(Blocks)]
          /\ used' \in [Blocks -> SUBSET Nat]
          /\ numFree' \in [Blocks -> Nat] /\ nextFree' \in [Blocks -> Nat]
      BY <1>1, <1>2, <1>3, InstallType
    <2>3. rest' = rest /\ todo' = todo /\ best' = best /\ freeBest' = freeBest
      BY <1>4 DEF sweepVars
    <2>4. freeBlocks' \in Seq(Blocks) /\ blockUsed' \in Nat
      BY <1>1, <1>2 DEF TypeOK
    <2>5. /\ caches' = caches /\ full' = full /\ carved' = carved /\ threshold' = threshold
          /\ pc' = pc /\ request' = request
      BY <1>1, <1>4
    <2> QED
      BY <2>1, <2>2, <2>3, <2>4, <2>5 DEF TypeOK
  <1>6. \A d \in Caches : b \notin BlocksOf(d)
    BY <1>2 DEF Owned
  <1>7. free = NumEntries[c] => used[b] = ClearedBits(c)
    BY <1>2 DEF FreeBlocksClean, free
  <1>8. /\ SeqBlocks(freeBlocks') = SeqBlocks(freeBlocks) \ {b} /\ Distinct(freeBlocks')
        /\ \A x \in Blocks : x <= carved' <=> x <= carved \/ x = b
        /\ carved <= carved'
    <2>1. b <= carved /\ carved \in Nat /\ carved' = carved
      BY <1>1, <1>2 DEF Owned, TypeOK
    <2> QED
      BY <1>1, <1>2, <2>1
  <1>9. blockUsed' = Cardinality(AllBlocks) + 1
    BY <1>1, <1>4, BlocksFacts, FS_CardinalityType DEF BlockUsedExact, AllBlocks
  <1>10. Current = held /\ pc' = "idle" /\ request' = NoCache /\ marked' = {}
    BY <1>1, <1>4 DEF Current
  <1>11. Untyped'
    BY <1>1, <1>2, <1>3, <1>4, <1>5, <1>6, <1>7, <1>8, <1>9, <1>10, AddBlock
  <1> QED
    BY <1>5, <1>11 DEF Untyped

(* What the two steps that carve a block have in common.                   *)
LEMMA CarveFacts ==
    ASSUME IInv, NEW c \in Caches, Carve(c), freeBlocks' = freeBlocks
    PROVE  /\ carved + 1 \in Blocks
           /\ Install(c, carved + 1, 0)
           /\ 0 = NumEntries[c] => used[carved + 1] = ClearedBits(c)
           /\ \A d \in Caches : carved + 1 \notin BlocksOf(d)
           /\ SeqBlocks(freeBlocks') = SeqBlocks(freeBlocks) \ {carved + 1}
           /\ Distinct(freeBlocks')
           /\ carved <= carved' /\ carved' \in 0 .. MaxBlocks
           /\ \A x \in Blocks : x <= carved' <=> x <= carved \/ x = carved + 1
  <1> USE DEF IInv
  <1>1. carved \in Nat /\ carved + 1 <= MaxBlocks /\ carved' = carved + 1 /\ MaxBlocks \in Nat
    BY BoundsAssumption DEF Carve, TypeOK
  <1>2. carved + 1 \in Blocks /\ ~(carved + 1 <= carved)
    BY <1>1 DEF Blocks
  <1>3. carved + 1 \notin SeqBlocks(freeBlocks) /\ \A d \in Caches : carved + 1 \notin BlocksOf(d)
    BY <1>2 DEF Owned
  <1>4. NumEntries[c] # 0
    BY GeometryAssumption
  <1>5. \A x \in Blocks : x <= carved' <=> x <= carved \/ x = carved + 1
    BY <1>1 DEF Blocks
  <1> QED
    BY <1>1, <1>2, <1>3, <1>4, <1>5 DEF Carve, Shape

LEMMA AllocCarveStep ==
    ASSUME IInv, NEW c \in Caches, AllocCarve(c)
    PROVE  IInv'
  <1> USE DEF IInv
  <1> DEFINE b == carved + 1
  <1>1. /\ pc = "idle" /\ Known(c) /\ Carve(c)
        /\ held' = held \cup {<<c, b, 0>>}
        /\ blockUsed' = blockUsed + 1
        /\ UNCHANGED <<caches, full, freeBlocks, threshold, gcVars>>
    BY DEF AllocCarve, NeedsBlock
  <1>2. /\ b \in Blocks
        /\ Install(c, b, 0)
        /\ 0 = NumEntries[c] => used[b] = ClearedBits(c)
        /\ \A d \in Caches : b \notin BlocksOf(d)
        /\ SeqBlocks(freeBlocks') = SeqBlocks(freeBlocks) \ {b}
        /\ Distinct(freeBlocks')
        /\ carved <= carved' /\ carved' \in 0 .. MaxBlocks
        /\ \A x \in Blocks : x <= carved' <=> x <= carved \/ x = b
    BY <1>1, CarveFacts
  <1>3. /\ rest = << >> /\ marked = {} /\ request = NoCache
        /\ UNCHANGED <<pc, request, marked, sweepVars>>
    BY <1>1 DEF Phases, gcVars
  <1> HIDE DEF b
  <1>4. TypeOK'
    <2>1. held' \subseteq Entries /\ marked' = {}
      BY <1>1, <1>2, <1>3, InstallType DEF TypeOK
    <2>2. /\ partial' \in [Caches -> Seq(Blocks)]
          /\ used' \in [Blocks -> SUBSET Nat]
          /\ numFree' \in [Blocks -> Nat] /\ nextFree' \in [Blocks -> Nat]
      BY <1>2, InstallType
    <2>3. rest' = rest /\ todo' = todo /\ best' = best /\ freeBest' = freeBest
      BY <1>3 DEF sweepVars
    <2>4. /\ caches' = caches /\ full' = full /\ freeBlocks' = freeBlocks
          /\ threshold' = threshold /\ blockUsed' = blockUsed + 1
          /\ pc' = pc /\ request' = request /\ carved' \in 0 .. MaxBlocks
      BY <1>1, <1>2, <1>3
    <2>5. blockUsed' \in Nat
      BY <2>4 DEF TypeOK
    <2>6. marked' \subseteq held'
      BY <2>1
    <2> QED
      BY <2>1, <2>2, <2>3, <2>4, <2>5, <2>6 DEF TypeOK
  <1>5. blockUsed' = Cardinality(AllBlocks) + 1
    BY <1>1, <1>3, BlocksFacts, FS_CardinalityType DEF BlockUsedExact, AllBlocks
  <1>6. Current = held /\ pc' = "idle" /\ request' = NoCache /\ marked' = {}
    BY <1>1, <1>3 DEF Current
  <1>7. Untyped'
    BY <1>1, <1>2, <1>3, <1>4, <1>5, <1>6, AddBlock
  <1> QED
    BY <1>4, <1>7 DEF Untyped

LEMMA EndGCThenCarveStep ==
    ASSUME IInv, EndGCThenCarve
    PROVE  IInv'
  <1> USE DEF IInv
  <1> DEFINE b == carved + 1
             c == request
  <1>1. /\ pc = "sweep" /\ rest = << >> /\ c \in Caches /\ Carve(c)
        /\ pc' = "idle" /\ held' = marked \cup {<<c, b, 0>>} /\ marked' = {}
        /\ request' = NoCache
        /\ UNCHANGED <<caches, full, freeBlocks, blockUsed, sweepVars>>
        /\ threshold' = IF blockUsed * 10 >= threshold * 9 THEN 2 * threshold ELSE threshold
    BY DEF EndGCThenCarve, TypeOK
  <1>2. /\ b \in Blocks
        /\ Install(c, b, 0)
        /\ 0 = NumEntries[c] => used[b] = ClearedBits(c)
        /\ \A d \in Caches : b \notin BlocksOf(d)
        /\ SeqBlocks(freeBlocks') = SeqBlocks(freeBlocks) \ {b}
        /\ Distinct(freeBlocks')
        /\ carved <= carved' /\ carved' \in 0 .. MaxBlocks
        /\ \A x \in Blocks : x <= carved' <=> x <= carved \/ x = b
    BY <1>1, CarveFacts
  <1>3. Known(c) /\ request # NoCache
    BY <1>1, NamesAssumption DEF Phases
  <1> HIDE DEF b, c
  <1>4. TypeOK'
    <2>1. held' \subseteq Entries /\ marked' = {}
      BY <1>1, <1>2, InstallType DEF TypeOK
    <2>2. /\ partial' \in [Caches -> Seq(Blocks)]
          /\ used' \in [Blocks -> SUBSET Nat]
          /\ numFree' \in [Blocks -> Nat] /\ nextFree' \in [Blocks -> Nat]
      BY <1>1, <1>2, InstallType
    <2>3. rest' = rest /\ todo' = todo /\ best' = best /\ freeBest' = freeBest
      BY <1>1 DEF sweepVars
    <2>4. threshold' \in Nat
      BY <1>1 DEF TypeOK
    <2> QED
      BY <1>1, <1>2, <2>1, <2>2, <2>3, <2>4 DEF TypeOK
  <1>5. blockUsed' = Cardinality(AllBlocks) + 1
    BY <1>1, <1>3 DEF BlockUsedExact, AllBlocks
  <1>6. Current = marked /\ pc # "mark"
    BY <1>1 DEF Current
  <1>7. Untyped'
    BY <1>1, <1>2, <1>3, <1>4, <1>5, <1>6, AddBlock
  <1> QED
    BY <1>4, <1>7 DEF Untyped

-----------------------------------------------------------------------------
(* What s_alloc takes from the first block of a cache.                     *)
LEMMA TakenFacts ==
    ASSUME IInv, pc = "idle", NEW c \in Caches, partial[c] # << >>,
           NEW b, b = Head(partial[c])
    PROVE  /\ b \in Blocks /\ b \in SeqBlocks(partial[c]) /\ b \in BlocksOf(c)
           /\ numFree[b] \in 1 .. NumEntries[c] - 1
           /\ HasClear(c, b)
           /\ FoundUnit(c, b) \in 0 .. Units(c) - 1
           /\ FoundPlace(c, b) \in Places(c) /\ FoundPlace(c, b) \notin used[b]
           /\ <<c, b, FoundPlace(c, b)>> \in Entries
  <1> USE DEF IInv
  <1>1. b \in Blocks /\ b \in SeqBlocks(partial[c]) /\ b \in BlocksOf(c)
    BY BlocksFacts, TailBlocks DEF Listed
  <1>2. numFree[b] \in 1 .. NumEntries[c] - 1
    <2>1. ~Waiting(c)
      BY EmptySeq DEF Waiting, Phases
    <2> QED
      BY <1>1, <2>1 DEF Sorting, Sorted
  <1>3. \E p \in Places(c) : p \notin used[b]
    <2>1. numFree[b] = 0 <=> Places(c) \subseteq used[b]
      BY <1>1, CountFacts
    <2> QED
      BY <1>2, <2>1
  <1>4. nextFree[b] \in 0 .. Units(c) - 1 /\ (Units(c) # 1 => ClearedBits(c) \subseteq used[b])
    BY <1>1 DEF BitsSound, BlockSound
  <1>5. /\ HasClear(c, b)
        /\ FoundUnit(c, b) \in 0 .. Units(c) - 1
        /\ FoundPlace(c, b) \in Places(c) /\ FoundPlace(c, b) \notin used[b]
    BY <1>1, <1>3, <1>4, FoundFacts
  <1> QED
    BY <1>1, <1>2, <1>5 DEF Entries

LEMMA AllocPartialStep ==
    ASSUME IInv, NEW c \in Caches, AllocPartial(c)
    PROVE  IInv'
  <1> USE DEF IInv
  <1> DEFINE b == Head(partial[c])
             p == FoundPlace(c, b)
             f == FoundUnit(c, b)
  <1>1. /\ pc = "idle" /\ partial[c] # << >>
        /\ numFree' = [numFree EXCEPT ![b] = @ - 1]
        /\ used' = [used EXCEPT ![b] = @ \cup {p}]
        /\ nextFree' = [nextFree EXCEPT ![b] = f]
        /\ held' = held \cup {<<c, b, p>>}
        /\ IF numFree[b] = 1
           THEN /\ partial' = [partial EXCEPT ![c] = Tail(@)]
                /\ full' = [full EXCEPT ![c] = <<b>> \o @]
           ELSE UNCHANGED <<partial, full>>
        /\ UNCHANGED <<caches, freeBlocks, carved, blockUsed, threshold, gcVars>>
    BY DEF AllocPartial
  <1>2. /\ b \in Blocks /\ b \in SeqBlocks(partial[c]) /\ b \in BlocksOf(c)
        /\ numFree[b] \in 1 .. NumEntries[c] - 1
        /\ f \in 0 .. Units(c) - 1
        /\ p \in Places(c) /\ p \notin used[b] /\ p \in Nat
        /\ <<c, b, p>> \in Entries
    BY <1>1, TakenFacts DEF Places
  <1>3. /\ partial[c] \in Seq(Blocks) /\ full[c] \in Seq(Blocks)
        /\ Tail(partial[c]) \in Seq(Blocks)
        /\ SeqBlocks(partial[c]) = {b} \cup SeqBlocks(Tail(partial[c]))
        /\ Distinct(Tail(partial[c])) /\ b \notin SeqBlocks(Tail(partial[c]))
    BY <1>1, TailBlocks, BlocksFacts DEF Shape
  <1>4. /\ <<b>> \o full[c] \in Seq(Blocks)
        /\ SeqBlocks(<<b>> \o full[c]) = {b} \cup SeqBlocks(full[c])
        /\ Distinct(<<b>> \o full[c])
    <2>1. b \notin SeqBlocks(full[c]) /\ Distinct(full[c])
      BY <1>2 DEF Shape
    <2> HIDE DEF b
    <2> QED
      BY <1>2, <1>3, <2>1, ConsBlocks
  <1> HIDE DEF b, p, f
  <1>5. /\ pc' = "idle" /\ marked' = marked /\ request' = request /\ rest' = rest
        /\ todo' = todo /\ best' = best /\ freeBest' = freeBest /\ caches' = caches
        /\ rest = << >> /\ best = NoBlock /\ todo = << >>
        /\ Hand' = Hand
    BY <1>1 DEF Phases, gcVars, sweepVars, Hand
  <1>6. /\ used'[b] = used[b] \cup {p} /\ numFree'[b] = numFree[b] - 1 /\ nextFree'[b] = f
        /\ \A x \in Blocks \ {b} : /\ used'[x] = used[x] /\ numFree'[x] = numFree[x]
                                   /\ nextFree'[x] = nextFree[x]
    BY <1>1, <1>2 DEF TypeOK
  <1>7. TypeOK'
    <2>1. /\ used' \in [Blocks -> SUBSET Nat] /\ numFree' \in [Blocks -> Nat]
          /\ nextFree' \in [Blocks -> Nat] /\ held' \subseteq Entries /\ marked \subseteq held'
      <3>1. f \in Nat /\ numFree[b] - 1 \in Nat
        BY <1>2, ClearedFacts
      <3> QED
        BY <1>1, <1>2, <3>1 DEF TypeOK
    <2>2. partial' \in [Caches -> Seq(Blocks)] /\ full' \in [Caches -> Seq(Blocks)]
      BY <1>1, <1>3, <1>4 DEF TypeOK
    <2> QED
      BY <1>1, <1>5, <2>1, <2>2 DEF TypeOK
  <1>8. /\ \A d \in Caches \ {c} : partial'[d] = partial[d] /\ full'[d] = full[d]
        /\ numFree[b] = 1 => /\ SeqBlocks(partial'[c]) = SeqBlocks(partial[c]) \ {b}
                             /\ SeqBlocks(full'[c]) = SeqBlocks(full[c]) \cup {b}
        /\ numFree[b] # 1 => partial'[c] = partial[c] /\ full'[c] = full[c]
        /\ Distinct(partial'[c]) /\ Distinct(full'[c])
        /\ SeqBlocks(partial'[c]) \cap SeqBlocks(full'[c]) = {}
    <2>1. \A d \in Caches \ {c} : partial'[d] = partial[d] /\ full'[d] = full[d]
      BY <1>1 DEF TypeOK
    <2>2. CASE numFree[b] = 1
      <3>1. partial'[c] = Tail(partial[c]) /\ full'[c] = <<b>> \o full[c]
        BY <1>1, <2>2 DEF TypeOK
      <3> QED
        BY <1>3, <1>4, <2>1, <2>2, <3>1 DEF Shape
    <2>3. CASE numFree[b] # 1
      BY <1>1, <2>1, <2>3 DEF Shape
    <2> QED
      BY <2>2, <2>3
  <1>9. \A d \in Caches : Listed(d)' = Listed(d) /\ BlocksOf(d)' = BlocksOf(d)
    <2>1. \A d \in Caches : Listed(d)' = Listed(d)
      BY <1>2, <1>8 DEF Listed
    <2> QED
      BY <1>5, <2>1 DEF BlocksOf, Listed
  <1>10. Shape'
    <2>1. \A d \in Caches : /\ Distinct(partial[d])' /\ Distinct(full[d])'
                            /\ (SeqBlocks(partial[d]) \cap SeqBlocks(full[d]) = {})'
      BY <1>8 DEF Shape
    <2>2. \A d \in Caches : (Listed(d) \cap Hand = {})'
      BY <1>5, <1>9 DEF Shape
    <2> QED
      BY <1>1, <1>5, <2>1, <2>2 DEF Shape
  <1>11. Owned'
    BY <1>1, <1>9 DEF Owned
  <1>12. Phases'
    BY <1>1, <1>5, <1>9, EmptySeq DEF Phases, Known
  <1>13. Current' = Current \cup {<<c, b, p>>} /\ Current = held
    BY <1>1, <1>5 DEF Current
  <1>14. BitsSound'
    <2> SUFFICES ASSUME NEW d \in Caches, NEW x \in BlocksOf(d) PROVE BlockSound(d, x)'
      BY <1>9 DEF BitsSound
    <2>1. BlockSound(d, x) /\ x \in Blocks
      BY BlocksFacts DEF BitsSound
    <2>2. CASE x = b
      <3>1. d = c
        BY <1>2, <2>2 DEF Owned
      <3>2. Places(c) \ used'[b] = (Places(c) \ used[b]) \ {p}
        BY <1>6
      <3>3. numFree'[b] = Cardinality(Places(c) \ used'[b])
        <4> DEFINE S == Places(c) \ used[b]
        <4>1. IsFiniteSet(S) /\ p \in S /\ numFree[b] = Cardinality(S)
          BY <1>2, <1>6, <2>1, <2>2, <3>1, CountFacts DEF BlockSound
        <4>2. numFree'[b] = numFree[b] - 1 /\ Places(c) \ used'[b] = S \ {p}
          BY <1>6, <3>2
        <4> HIDE DEF S
        <4>3. Cardinality(S \ {p}) = Cardinality(S) - 1
          BY <4>1, FS_RemoveElement
        <4> QED
          BY <4>1, <4>2, <4>3
      <3>4. used'[b] \cap Places(c) = {q \in Places(c) : <<c, b, q>> \in Current'}
        BY <1>2, <1>6, <1>13, <2>1, <2>2, <3>1 DEF BlockSound
      <3>5. /\ used'[b] \subseteq Places(c) \cup ClearedBits(c)
            /\ Units(c) # 1 => ClearedBits(c) \subseteq used'[b]
            /\ nextFree'[b] \in 0 .. Units(c) - 1
        BY <1>1, <1>2, <1>6, <2>1, <2>2, <3>1 DEF BlockSound
      <3> QED
        BY <1>5, <2>2, <3>1, <3>3, <3>4, <3>5 DEF BlockSound
    <2>3. CASE x # b
      <3>1. \A q : <<d, x, q>> \in Current' <=> <<d, x, q>> \in Current
        BY <1>13, <2>3
      <3> QED
        BY <1>1, <1>5, <1>6, <2>1, <2>3, <3>1 DEF BlockSound
    <2> QED
      BY <2>2, <2>3
  <1>15. HeldOwned'
    <2>1. \A e \in held' : e[1] \in Caches
      BY <1>7 DEF TypeOK, Entries
    <2>2. b <= carved
      BY <1>2 DEF Owned
    <2>3. marked' = {}
      BY <1>1, <1>5 DEF Phases
    <2> QED
      BY <1>1, <1>2, <1>9, <2>1, <2>2, <2>3 DEF HeldOwned
  <1>16. Sorting'
    <2>1. \A d \in Caches : Sorted(d)
      BY <1>1, <1>5, EmptySeq DEF Sorting, Waiting
    <2>2. \A d \in Caches : Sorted(d)'
      <3> SUFFICES ASSUME NEW d \in Caches PROVE Sorted(d)'
        OBVIOUS
      <3>1. SeqBlocks(partial[d]) \subseteq Blocks /\ SeqBlocks(full[d]) \subseteq Blocks
        BY BlocksFacts
      <3>2. CASE d = c
        <4>1. b \notin SeqBlocks(full[c])
          BY <1>2 DEF Shape
        <4>2. \A x \in SeqBlocks(partial'[c]) : numFree'[x] \in 1 .. NumEntries[c] - 1
          <5> SUFFICES ASSUME NEW x \in SeqBlocks(partial'[c])
                       PROVE  numFree'[x] \in 1 .. NumEntries[c] - 1
            OBVIOUS
          <5>1. x \in SeqBlocks(partial[c]) /\ x \in Blocks /\ (x = b => numFree[b] # 1)
            BY <1>8, <3>1, <3>2
          <5>2. numFree[x] \in 1 .. NumEntries[c] - 1
            BY <2>1, <5>1 DEF Sorted
          <5>3. NumEntries[c] \in Nat
            BY GeometryAssumption
          <5> QED
            BY <1>6, <5>1, <5>2, <5>3
        <4>3. \A x \in SeqBlocks(full'[c]) : numFree'[x] = 0
          BY <1>2, <1>6, <1>8, <2>1, <3>1, <3>2, <4>1 DEF Sorted
        <4> QED
          BY <3>2, <4>2, <4>3 DEF Sorted
      <3>3. CASE d # c
        <4>1. b \notin SeqBlocks(full[d]) /\ b \notin SeqBlocks(partial[d])
          BY <1>2, <3>3, BlocksFacts DEF Owned, Listed
        <4> QED
          BY <1>6, <1>8, <2>1, <3>1, <3>3, <4>1 DEF Sorted
      <3> QED
        BY <3>2, <3>3
    <2> QED
      BY <1>5, <2>2 DEF Sorting
  <1>17. FreeBlocksClean'
    <2>1. \A x \in SeqBlocks(freeBlocks) : x # b /\ x \in Blocks
      BY <1>2, BlocksFacts DEF Owned
    <2> QED
      BY <1>1, <1>6, <2>1 DEF FreeBlocksClean
  <1>18. BlockUsedExact'
    BY <1>1, <1>5, <1>9 DEF BlockUsedExact
  <1> QED
    BY <1>7, <1>10, <1>11, <1>12, <1>14, <1>15, <1>16, <1>17, <1>18

-----------------------------------------------------------------------------
(* The start of a collection.                                              *)
LEMMA ClearUsedBitsFacts ==
    ASSUME IInv, pc = "idle", ClearUsedBits
    PROVE  /\ used' \in [Blocks -> SUBSET Nat] /\ numFree' \in [Blocks -> Nat]
           /\ \A c \in Caches : \A b \in BlocksOf(c) :
                 used'[b] = ClearedBits(c) /\ numFree'[b] = NumEntries[c]
           /\ \A b \in Blocks : (\A c \in Caches : b \notin BlocksOf(c)) =>
                 used'[b] = used[b] /\ numFree'[b] = numFree[b]
  <1> USE DEF IInv
  <1> DEFINE Owner(b) == {c \in Caches : Clears(c, b)}
             Chosen(b) == CHOOSE c \in Owner(b) : TRUE
  <1>1. \A c \in Caches, b \in Blocks : c \in Owner(b) <=> b \in BlocksOf(c)
    <2> SUFFICES ASSUME NEW c \in Caches, NEW b \in Blocks
                 PROVE  Clears(c, b) <=> b \in BlocksOf(c)
      OBVIOUS
    <2>1. BlocksOf(c) = Listed(c)
      BY BlocksFacts DEF Phases
    <2>2. In(b, partial[c]) <=> b \in SeqBlocks(partial[c])
      BY BlocksFacts, SeqBlocksFacts
    <2>3. In(b, full[c]) <=> b \in SeqBlocks(full[c])
      BY BlocksFacts, SeqBlocksFacts
    <2> QED
      BY <2>1, <2>2, <2>3 DEF Clears, Listed
  <1>2. /\ used' = [b \in Blocks |-> IF Owner(b) = {} THEN used[b] ELSE ClearedBits(Chosen(b))]
        /\ numFree' = [b \in Blocks |-> IF Owner(b) = {} THEN numFree[b]
                                                        ELSE NumEntries[Chosen(b)]]
    BY DEF ClearUsedBits
  <1>3. \A b \in Blocks : Owner(b) # {} => Chosen(b) \in Owner(b) /\ Chosen(b) \in Caches
    OBVIOUS
  <1> HIDE DEF Owner, Chosen
  <1>4. \A c \in Caches : \A b \in BlocksOf(c) :
            b \in Blocks /\ Owner(b) # {} /\ Chosen(b) = c
    BY <1>1, <1>3, BlocksFacts DEF Owned
  <1>5. \A b \in Blocks : (\A c \in Caches : b \notin BlocksOf(c)) => Owner(b) = {}
    BY <1>1, <1>3
  <1>6. \A c \in Caches : NumEntries[c] \in Nat /\ ClearedBits(c) \in SUBSET Nat
    BY GeometryAssumption, ClearedFacts
  <1>7. used' \in [Blocks -> SUBSET Nat] /\ numFree' \in [Blocks -> Nat]
    BY <1>2, <1>3, <1>6 DEF TypeOK
  <1> QED
    BY <1>2, <1>4, <1>5, <1>7

LEMMA ClearStep ==
    ASSUME IInv, pc = "idle", ClearUsedBits,
           request' \in Caches \cup {NoCache},
           request' # NoCache => Known(request'),
           blockUsed' = blockUsed + (IF request' = NoCache THEN 0 ELSE 1)
    PROVE  IInv'
  <1> USE DEF IInv
  <1>1. /\ used' \in [Blocks -> SUBSET Nat] /\ numFree' \in [Blocks -> Nat]
        /\ \A c \in Caches : \A b \in BlocksOf(c) :
              used'[b] = ClearedBits(c) /\ numFree'[b] = NumEntries[c]
        /\ \A b \in Blocks : (\A c \in Caches : b \notin BlocksOf(c)) =>
              used'[b] = used[b] /\ numFree'[b] = numFree[b]
    BY ClearUsedBitsFacts
  <1>2. /\ pc' = "mark" /\ caches' = caches /\ partial' = partial /\ full' = full
        /\ freeBlocks' = freeBlocks /\ carved' = carved /\ nextFree' = nextFree
        /\ threshold' = threshold /\ held' = held /\ marked' = marked
        /\ rest' = rest /\ todo' = todo /\ best' = best /\ freeBest' = freeBest
    BY DEF ClearUsedBits, lists, sweepVars
  <1>3. rest = << >> /\ marked = {} /\ request = NoCache /\ best = NoBlock /\ todo = << >>
    BY DEF Phases
  <1>4. TypeOK'
    BY <1>1, <1>2 DEF TypeOK
  <1>5. Hand' = Hand /\ \A c \in Caches : Listed(c)' = Listed(c) /\ BlocksOf(c)' = BlocksOf(c)
    BY <1>2 DEF BlocksOf, Listed, Hand
  <1>6. Shape'
    BY <1>2, <1>5 DEF Shape
  <1>7. Owned'
    BY <1>2, <1>5 DEF Owned
  <1>8. Phases'
    <2>1. \A c \in Caches : Known(c)' <=> Known(c)
      BY <1>2 DEF Known
    <2>2. request' # NoCache => Known(request)'
      BY <1>2 DEF Known
    <2> QED
      BY <1>2, <1>3, <1>5, <2>1, <2>2, EmptySeq DEF Phases
  <1>9. BitsSound'
    <2> SUFFICES ASSUME NEW c \in Caches, NEW b \in BlocksOf(c) PROVE BlockSound(c, b)'
      BY <1>5 DEF BitsSound
    <2>1. used'[b] = ClearedBits(c) /\ numFree'[b] = NumEntries[c]
      BY <1>1
    <2>2. Cardinality(Places(c)) = NumEntries[c]
      BY GeometryAssumption, FS_Interval DEF Places
    <2>3. Places(c) \ used'[b] = Places(c) /\ used'[b] \cap Places(c) = {}
      BY <2>1, ClearedFacts
    <2>4. Current' = {}
      BY <1>2, <1>3 DEF Current
    <2>5. nextFree'[b] \in 0 .. Units(c) - 1
      BY <1>2 DEF BitsSound, BlockSound
    <2> QED
      BY <1>2, <2>1, <2>2, <2>3, <2>4, <2>5 DEF BlockSound
  <1>10. HeldOwned'
    <2>1. \A e \in held : e[1] \in Caches
      BY DEF TypeOK, Entries
    <2> QED
      BY <1>2, <1>3, <1>5, <2>1 DEF HeldOwned
  <1>11. Sorting'
    BY <1>2, <1>3 DEF Sorting
  <1>12. FreeBlocksClean'
    <2>1. \A b \in SeqBlocks(freeBlocks) : b \in Blocks /\ \A c \in Caches : b \notin BlocksOf(c)
      BY BlocksFacts DEF Owned
    <2> QED
      BY <1>1, <1>2, <2>1 DEF FreeBlocksClean
  <1>13. BlockUsedExact'
    <2>1. AllBlocks' = AllBlocks
      BY <1>5 DEF AllBlocks
    <2>2. blockUsed' = Cardinality(AllBlocks) + (IF request' = NoCache THEN 0 ELSE 1)
      <3>1. blockUsed = Cardinality(AllBlocks) + 0
        BY <1>3 DEF BlockUsedExact, AllBlocks
      <3>2. Cardinality(AllBlocks) \in Nat
        BY BlocksFacts, FS_CardinalityType
      <3> QED
        BY <3>1, <3>2
    <2> QED
      BY <2>1, <2>2 DEF BlockUsedExact, AllBlocks
  <1> QED
    BY <1>4, <1>6, <1>7, <1>8, <1>9, <1>10, <1>11, <1>12, <1>13

LEMMA AllocCollectsStep ==
    ASSUME IInv, NEW c \in Caches, AllocCollects(c)
    PROVE  IInv'
  <1>1. /\ pc = "idle" /\ Known(c) /\ ClearUsedBits
        /\ request' = c /\ blockUsed' = blockUsed + 1
    BY DEF AllocCollects, NeedsBlock
  <1> QED
    BY <1>1, ClearStep, NamesAssumption

LEMMA PerformGCStep ==
    ASSUME IInv, PerformGC
    PROVE  IInv'
  <1>1. pc = "idle" /\ ClearUsedBits /\ request' = request /\ blockUsed' = blockUsed
    BY DEF PerformGC
  <1>2. request' = NoCache /\ blockUsed' = blockUsed + 0
    BY <1>1 DEF IInv, Phases, TypeOK
  <1> QED
    BY <1>1, <1>2, ClearStep

-----------------------------------------------------------------------------
(* s_set_used_bit.                                                         *)
LEMMA MarkStep ==
    ASSUME IInv, NEW e \in held, Mark(e)
    PROVE  IInv'
  <1> USE DEF IInv
  <1> DEFINE c == e[1]
             b == e[2]
             p == e[3]
  <1>1. c \in Caches /\ b \in Blocks /\ p \in Places(c) /\ e = <<c, b, p>> /\ p \in Nat
    <2>1. e \in Entries
      BY DEF TypeOK
    <2> QED
      BY <2>1, EntryFacts
  <1>2. /\ pc = "mark" /\ pc' = "mark"
        /\ marked' = marked \cup {e}
        /\ IF p \notin used[b]
           THEN /\ used' = [used EXCEPT ![b] = @ \cup {p}]
                /\ numFree' = [numFree EXCEPT ![b] = numFree[b] - 1]
           ELSE UNCHANGED <<used, numFree>>
        /\ caches' = caches /\ partial' = partial /\ full' = full
        /\ freeBlocks' = freeBlocks /\ carved' = carved /\ nextFree' = nextFree
        /\ blockUsed' = blockUsed /\ threshold' = threshold /\ held' = held
        /\ request' = request
        /\ rest' = rest /\ todo' = todo /\ best' = best /\ freeBest' = freeBest
    BY DEF Mark, BitUnset, OneLess, lists, sweepVars
  <1> HIDE DEF c, b, p
  <1>3. b \in BlocksOf(c)
    BY <1>2 DEF HeldOwned, b, c
  <1>4. BlockSound(c, b) /\ rest = << >>
    BY <1>1, <1>2, <1>3 DEF BitsSound, Phases
  <1>5. /\ used'[b] = used[b] \cup {p}
        /\ numFree'[b] = Cardinality(Places(c) \ used'[b])
        /\ used' \in [Blocks -> SUBSET Nat] /\ numFree' \in [Blocks -> Nat]
        /\ \A x \in Blocks \ {b} : used'[x] = used[x] /\ numFree'[x] = numFree[x]
    <2>1. CASE p \in used[b]
      <3>1. used' = used /\ numFree' = numFree
        BY <1>2, <2>1
      <3> QED
        BY <1>4, <2>1, <3>1 DEF BlockSound, TypeOK
    <2>2. CASE p \notin used[b]
      <3>1. used'[b] = used[b] \cup {p} /\ numFree'[b] = numFree[b] - 1
        BY <1>1, <1>2, <2>2 DEF TypeOK
      <3>2. Places(c) \ used'[b] = (Places(c) \ used[b]) \ {p}
        BY <3>1
      <3>3. IsFiniteSet(Places(c) \ used[b]) /\ IsFiniteSet(Places(c) \ used'[b])
        BY <1>1, <1>3, <3>2, CountFacts, FS_RemoveElement
      <3>4. numFree'[b] = Cardinality(Places(c) \ used'[b])
        BY <1>1, <1>4, <2>2, <3>1, <3>2, <3>3, FS_RemoveElement DEF BlockSound
      <3>5. numFree'[b] \in Nat
        BY <3>3, <3>4, FS_CardinalityType
      <3>6. /\ used' = [used EXCEPT ![b] = @ \cup {p}]
            /\ numFree' = [numFree EXCEPT ![b] = numFree[b] - 1]
            /\ used \in [Blocks -> SUBSET Nat] /\ numFree \in [Blocks -> Nat]
        BY <1>2, <2>2 DEF TypeOK
      <3>7. used' \in [Blocks -> SUBSET Nat]
        BY <1>1, <3>6
      <3>8. numFree' \in [Blocks -> Nat]
        BY <1>1, <3>1, <3>5, <3>6
      <3>9. \A x \in Blocks \ {b} : used'[x] = used[x] /\ numFree'[x] = numFree[x]
        BY <1>1, <3>6
      <3> QED
        BY <3>1, <3>4, <3>7, <3>8, <3>9
    <2> QED
      BY <2>1, <2>2
  <1>6. TypeOK'
    BY <1>2, <1>5 DEF TypeOK
  <1>7. Hand' = Hand /\ \A d \in Caches : Listed(d)' = Listed(d) /\ BlocksOf(d)' = BlocksOf(d)
    BY <1>2 DEF BlocksOf, Listed, Hand
  <1>8. Shape'
    BY <1>2, <1>7 DEF Shape
  <1>9. Owned'
    BY <1>2, <1>7 DEF Owned
  <1>10. Phases'
    BY <1>2, <1>7 DEF Phases, Known
  <1>11. Current = marked /\ Current' = marked \cup {e}
    BY <1>2 DEF Current
  <1>12. BitsSound'
    <2> SUFFICES ASSUME NEW d \in Caches, NEW x \in BlocksOf(d) PROVE BlockSound(d, x)'
      BY <1>7 DEF BitsSound
    <2>1. BlockSound(d, x) /\ x \in Blocks
      BY BlocksFacts DEF BitsSound
    <2>2. CASE x = b
      <3>1. d = c
        BY <1>1, <1>3, <2>2 DEF Owned
      <3>2. used'[b] \cap Places(c) = {q \in Places(c) : <<c, b, q>> \in Current'}
        BY <1>1, <1>4, <1>5, <1>11 DEF BlockSound
      <3>3. /\ used'[b] \subseteq Places(c) \cup ClearedBits(c)
            /\ ClearedBits(c) \subseteq used'[b]
            /\ nextFree'[b] \in 0 .. Units(c) - 1
        BY <1>1, <1>2, <1>4, <1>5 DEF BlockSound
      <3> QED
        BY <1>5, <2>2, <3>1, <3>2, <3>3 DEF BlockSound
    <2>3. CASE x # b
      <3>1. \A q : <<d, x, q>> \in Current' <=> <<d, x, q>> \in Current
        BY <1>1, <1>11, <2>3
      <3> QED
        BY <1>2, <1>5, <2>1, <2>3, <3>1 DEF BlockSound
    <2> QED
      BY <2>2, <2>3
  <1>13. HeldOwned'
    <2>1. \A x \in held : x[1] \in Caches
      BY DEF TypeOK, Entries
    <2> QED
      BY <1>2, <1>7, <2>1 DEF HeldOwned, TypeOK
  <1>14. Sorting'
    BY <1>2, <1>4 DEF Sorting, Phases
  <1>15. FreeBlocksClean'
    <2>1. \A x \in SeqBlocks(freeBlocks) : x # b /\ x \in Blocks
      BY <1>1, <1>3, BlocksFacts DEF Owned
    <2> QED
      BY <1>2, <1>5, <2>1 DEF FreeBlocksClean
  <1>16. BlockUsedExact'
    BY <1>2, <1>7 DEF BlockUsedExact
  <1> QED
    BY <1>6, <1>8, <1>9, <1>10, <1>12, <1>13, <1>14, <1>15, <1>16

-----------------------------------------------------------------------------
(* s_cleanup_blocks takes the lists of a cache apart.  blocks are the      *)
(* partial lists with the cache before put together again.                 *)
LEMMA DetachStep ==
    ASSUME IInv, NEW blocks \in [Caches -> Seq(Blocks)], NEW cs \in Seq(Caches),
           Detach(cs, blocks), pc \in {"mark", "sweep"}, pc' = "sweep",
           UNCHANGED <<sweepUnchanged, freeBlocks, blockUsed>>,
           todo = << >>,
           \A k \in DOMAIN cs : Known(cs[k]),
           \A c \in Caches :
              /\ Distinct(blocks[c])
              /\ SeqBlocks(blocks[c]) \cap SeqBlocks(full[c]) = {}
              /\ SeqBlocks(blocks[c]) \cup SeqBlocks(full[c]) = BlocksOf(c)
              /\ ~In(c, cs) =>
                    /\ \A b \in SeqBlocks(blocks[c]) : numFree[b] \in 1 .. NumEntries[c] - 1
                    /\ \A b \in SeqBlocks(full[c]) : numFree[b] = 0
    PROVE  IInv'
  <1> USE DEF IInv
  <1> DEFINE h == Head(cs)
  <1>1. /\ caches' = caches /\ carved' = carved /\ used' = used /\ numFree' = numFree
        /\ nextFree' = nextFree /\ threshold' = threshold /\ held' = held
        /\ request' = request /\ marked' = marked /\ freeBlocks' = freeBlocks
        /\ blockUsed' = blockUsed
    BY DEF sweepUnchanged, bits
  <1>2. /\ rest' = cs /\ best' = NoBlock /\ freeBest' = 0
        /\ cs = << >> => partial' = blocks /\ todo' = << >> /\ full' = full
        /\ cs # << >> => /\ todo' = blocks[h] \o full[h]
                         /\ partial' = [blocks EXCEPT ![h] = << >>]
                         /\ full' = [full EXCEPT ![h] = << >>]
    BY DEF Detach
  <1>3. cs # << >> => h \in Caches
    BY HeadTailProperties
  <1> HIDE DEF h
  <1>4. /\ \A c \in Caches : cs = << >> \/ c # h =>
               partial'[c] = blocks[c] /\ full'[c] = full[c]
        /\ cs # << >> => partial'[h] = << >> /\ full'[h] = << >>
    BY <1>2, <1>3 DEF TypeOK
  <1>5. /\ full \in [Caches -> Seq(Blocks)]
        /\ \A c \in Caches : blocks[c] \in Seq(Blocks) /\ full[c] \in Seq(Blocks)
    BY DEF TypeOK
  <1>6. cs # << >> => /\ todo' \in Seq(Blocks)
                      /\ SeqBlocks(todo') = BlocksOf(h)
                      /\ Distinct(todo')
    <2> SUFFICES ASSUME cs # << >>
                 PROVE  /\ todo' \in Seq(Blocks)
                        /\ SeqBlocks(todo') = BlocksOf(h)
                        /\ Distinct(todo')
      OBVIOUS
    <2>1. Distinct(full[h])
      BY <1>3 DEF Shape
    <2>2. /\ todo' = blocks[h] \o full[h]
          /\ blocks[h] \in Seq(Blocks) /\ full[h] \in Seq(Blocks)
          /\ Distinct(blocks[h])
          /\ SeqBlocks(blocks[h]) \cap SeqBlocks(full[h]) = {}
          /\ SeqBlocks(blocks[h]) \cup SeqBlocks(full[h]) = BlocksOf(h)
      BY <1>2, <1>3, <1>5
    <2>3. /\ blocks[h] \o full[h] \in Seq(Blocks)
          /\ SeqBlocks(blocks[h] \o full[h]) = SeqBlocks(blocks[h]) \cup SeqBlocks(full[h])
          /\ Distinct(blocks[h] \o full[h])
      BY <2>1, <2>2, ConcatBlocks
    <2> QED
      BY <2>2, <2>3
  <1>7. TypeOK'
    <2>1. partial' \in [Caches -> Seq(Blocks)] /\ full' \in [Caches -> Seq(Blocks)]
      <3>1. << >> \in Seq(Blocks)
        OBVIOUS
      <3>2. CASE cs = << >>
        BY <1>2, <1>5, <3>2
      <3>3. CASE cs # << >>
        BY <1>2, <1>3, <1>5, <3>1, <3>3
      <3> QED
        BY <3>2, <3>3
    <2>2. todo' \in Seq(Blocks)
      BY <1>2, <1>6
    <2> QED
      BY <1>1, <1>2, <2>1, <2>2 DEF TypeOK
  <1>8. Hand' = IF cs = << >> THEN {} ELSE BlocksOf(h)
    BY <1>2, <1>6, EmptyBlocks DEF Hand
  <1>9. \A c \in Caches : /\ Listed(c)' = IF cs # << >> /\ c = h THEN {} ELSE BlocksOf(c)
                          /\ BlocksOf(c)' = BlocksOf(c)
    <2> SUFFICES ASSUME NEW c \in Caches
                 PROVE  /\ Listed(c)' = IF cs # << >> /\ c = h THEN {} ELSE BlocksOf(c)
                        /\ BlocksOf(c)' = BlocksOf(c)
      OBVIOUS
    <2>1. Listed(c)' = IF cs # << >> /\ c = h THEN {} ELSE BlocksOf(c)
      BY <1>4, EmptyBlocks DEF Listed
    <2>2. BlocksOf(c)' = Listed(c)' \cup (IF cs # << >> /\ c = h THEN Hand' ELSE {})
      BY <1>2 DEF BlocksOf, Listed, Hand, h
    <2> QED
      BY <1>8, <2>1, <2>2
  <1>10. Shape'
    <2>1. \A c \in Caches : /\ Distinct(partial[c])' /\ Distinct(full[c])'
                            /\ (SeqBlocks(partial[c]) \cap SeqBlocks(full[c]) = {})'
      BY <1>4, EmptyBlocks DEF Shape
    <2>2. \A c \in Caches : (Listed(c) \cap Hand = {})'
      BY <1>3, <1>8, <1>9 DEF Owned
    <2>3. Distinct(freeBlocks') /\ Distinct(todo')
      BY <1>1, <1>2, <1>6, EmptyBlocks DEF Shape
    <2>4. best' \notin SeqBlocks(todo')
      BY <1>2, <1>3, <1>6, EmptyBlocks, BlocksFacts, NamesAssumption DEF Blocks
    <2> QED
      BY <2>1, <2>2, <2>3, <2>4 DEF Shape
  <1>11. Owned'
    BY <1>1, <1>9 DEF Owned
  <1>12. Phases'
    <2>1. \A c \in Caches : ~Known(c) => BlocksOf(c) = {}
      <3> SUFFICES ASSUME NEW c \in Caches, ~Known(c) PROVE BlocksOf(c) = {}
        OBVIOUS
      <3>1. Listed(c) = {}
        BY DEF Phases
      <3>2. rest # << >> => c # Head(rest)
        <4>1. rest # << >> => 1 \in DOMAIN rest /\ Head(rest) = rest[1]
          <5>1. Len(rest) \in Nat /\ DOMAIN rest = 1 .. Len(rest)
            BY LenProperties DEF TypeOK
          <5>2. rest # << >> => Len(rest) # 0
            BY EmptySeq DEF TypeOK
          <5> QED
            BY <5>1, <5>2
        <4> QED
          BY <4>1 DEF Phases
      <3> QED
        BY <3>1, <3>2, BlocksFacts
    <2>2. \A c \in Caches : ~Known(c)' => Listed(c)' = {}
      BY <1>1, <1>9, <2>1 DEF Known
    <2>3. \A k \in DOMAIN cs : Known(cs[k])'
      BY <1>1 DEF Known
    <2>4. request' # NoCache => Known(request)'
      BY <1>1 DEF Phases, Known
    <2> QED
      BY <1>1, <1>2, <2>2, <2>3, <2>4 DEF Phases
  <1>13. Current' = Current
    BY <1>1 DEF Current
  <1>14. BitsSound'
    BY <1>1, <1>9, <1>13 DEF BitsSound, BlockSound
  <1>15. HeldOwned'
    <2>1. \A e \in held : e[1] \in Caches
      BY DEF TypeOK, Entries
    <2> QED
      BY <1>1, <1>9, <2>1 DEF HeldOwned, TypeOK
  <1>16. Sorting'
    <2> SUFFICES ASSUME NEW c \in Caches, ~Waiting(c)' PROVE Sorted(c)'
      BY <1>2 DEF Sorting
    <2>1. CASE cs # << >> /\ c = h
      BY <1>4, <2>1, EmptyBlocks DEF Sorted
    <2>2. CASE ~(cs # << >> /\ c = h)
      <3>1. ~In(c, cs)
        <4>1. cs # << >> => h = cs[1]
          BY DEF h
        <4> QED
          BY <1>2, <2>2, <4>1, EmptySeq DEF In, Waiting
      <3> QED
        BY <1>1, <1>4, <2>2, <3>1 DEF Sorted
    <2> QED
      BY <2>1, <2>2
  <1>17. FreeBlocksClean'
    BY <1>1 DEF FreeBlocksClean
  <1>18. BlockUsedExact'
    BY <1>1, <1>9 DEF BlockUsedExact
  <1> QED
    BY <1>7, <1>10, <1>11, <1>12, <1>14, <1>15, <1>16, <1>17, <1>18

LEMMA StartSweepStep ==
    ASSUME IInv, StartSweep
    PROVE  IInv'
  <1> USE DEF IInv
  <1>1. /\ pc = "mark" /\ pc' = "sweep" /\ Detach(caches, partial)
        /\ UNCHANGED <<sweepUnchanged, freeBlocks, blockUsed>>
    BY DEF StartSweep
  <1>2. partial \in [Caches -> Seq(Blocks)] /\ caches \in Seq(Caches)
    BY DEF TypeOK
  <1>3. rest = << >> /\ todo = << >>
    BY <1>1 DEF Phases
  <1>4. \A k \in DOMAIN caches : Known(caches[k])
    BY DEF Known
  <1>5. \A c \in Caches :
            /\ Distinct(partial[c])
            /\ SeqBlocks(partial[c]) \cap SeqBlocks(full[c]) = {}
            /\ SeqBlocks(partial[c]) \cup SeqBlocks(full[c]) = BlocksOf(c)
            /\ ~In(c, caches) => SeqBlocks(partial[c]) = {} /\ SeqBlocks(full[c]) = {}
    <2> SUFFICES ASSUME NEW c \in Caches
                 PROVE  /\ Distinct(partial[c])
                        /\ SeqBlocks(partial[c]) \cap SeqBlocks(full[c]) = {}
                        /\ SeqBlocks(partial[c]) \cup SeqBlocks(full[c]) = BlocksOf(c)
                        /\ ~In(c, caches) => SeqBlocks(partial[c]) = {} /\ SeqBlocks(full[c]) = {}
      OBVIOUS
    <2>1. SeqBlocks(partial[c]) \cup SeqBlocks(full[c]) = BlocksOf(c)
      BY <1>3, BlocksFacts DEF Listed
    <2>2. ~In(c, caches) => Listed(c) = {}
      BY DEF Phases, Known, In
    <2> QED
      BY <2>1, <2>2 DEF Shape, Listed
  <1> QED
    BY <1>1, <1>2, <1>3, <1>4, <1>5, DetachStep

(* The block set aside goes first, and the next cache is taken.            *)
LEMMA SweepCacheStep ==
    ASSUME IInv, SweepCache
    PROVE  IInv'
  <1> USE DEF IInv
  <1> DEFINE h == Head(rest)
             cs == Tail(rest)
             blocks == WithBest(h)
  <1>1. /\ pc = "sweep" /\ pc' = "sweep" /\ todo = << >> /\ rest # << >>
        /\ Detach(cs, blocks)
        /\ UNCHANGED <<sweepUnchanged, freeBlocks, blockUsed>>
    BY DEF SweepCache, CachesLeft
  <1>2. /\ h \in Caches /\ cs \in Seq(Caches)
        /\ \A k \in DOMAIN cs : k + 1 \in DOMAIN rest /\ cs[k] = rest[k + 1]
        /\ \A k \in DOMAIN rest : k = 1 \/ (k - 1 \in DOMAIN cs /\ cs[k - 1] = rest[k])
    <2>1. /\ h \in Caches /\ cs \in Seq(Caches)
          /\ \A k \in DOMAIN cs : k + 1 \in DOMAIN rest /\ cs[k] = rest[k + 1]
      BY <1>1, TailBlocks DEF TypeOK
    <2>2. /\ Len(rest) \in Nat \ {0} /\ DOMAIN rest = 1 .. Len(rest)
          /\ DOMAIN cs = 1 .. Len(rest) - 1
          /\ \A k \in 1 .. Len(rest) - 1 : cs[k] = rest[k + 1]
      BY <1>1, HeadTailProperties, LenProperties, EmptySeq DEF TypeOK
    <2>3. \A k \in DOMAIN rest : k = 1 \/ (k - 1 \in DOMAIN cs /\ cs[k - 1] = rest[k])
      BY <2>2
    <2> QED
      BY <2>1, <2>3
  <1>3. \A k \in DOMAIN cs : Known(cs[k])
    BY <1>2 DEF Phases
  <1>4. /\ blocks = IF best = NoBlock THEN partial
                                      ELSE [partial EXCEPT ![h] = <<best>> \o partial[h]]
        /\ best # NoBlock => best \in Blocks
        /\ partial \in [Caches -> Seq(Blocks)]
    BY DEF WithBest, TypeOK
  <1>5. best # NoBlock =>
            /\ <<best>> \o partial[h] \in Seq(Blocks)
            /\ SeqBlocks(<<best>> \o partial[h]) = {best} \cup SeqBlocks(partial[h])
            /\ Distinct(<<best>> \o partial[h])
            /\ best \notin Listed(h)
    <2> SUFFICES ASSUME best # NoBlock
                 PROVE  /\ <<best>> \o partial[h] \in Seq(Blocks)
                        /\ SeqBlocks(<<best>> \o partial[h]) = {best} \cup SeqBlocks(partial[h])
                        /\ Distinct(<<best>> \o partial[h])
                        /\ best \notin Listed(h)
      OBVIOUS
    <2>1. best \in Hand /\ best \in Blocks
      BY <1>4 DEF Hand
    <2>2. best \notin Listed(h)
      BY <1>2, <2>1 DEF Shape
    <2>3. best \notin SeqBlocks(partial[h]) /\ Distinct(partial[h])
      BY <1>2, <2>2 DEF Listed, Shape
    <2> HIDE DEF h
    <2> QED
      BY <1>2, <1>4, <2>1, <2>2, <2>3, ConsBlocks
  <1> HIDE DEF h, cs, blocks
  <1>6. blocks \in [Caches -> Seq(Blocks)]
    BY <1>2, <1>4, <1>5
  <1>7. \A c \in Caches : /\ c # h \/ best = NoBlock => blocks[c] = partial[c]
                          /\ c = h /\ best # NoBlock => blocks[c] = <<best>> \o partial[c]
    BY <1>2, <1>4
  <1>8. \A c \in Caches : BlocksOf(c) = Listed(c) \cup (IF c = h THEN {best} \ {NoBlock} ELSE {})
    <2>1. Hand = {best} \ {NoBlock}
      BY <1>1, EmptyBlocks DEF Hand
    <2> QED
      BY <1>1, <2>1, BlocksFacts DEF h
  <1>9. ASSUME NEW c \in Caches
        PROVE  /\ Distinct(blocks[c])
               /\ SeqBlocks(blocks[c]) \cap SeqBlocks(full[c]) = {}
               /\ SeqBlocks(blocks[c]) \cup SeqBlocks(full[c]) = BlocksOf(c)
               /\ ~In(c, cs) =>
                    /\ \A b \in SeqBlocks(blocks[c]) : numFree[b] \in 1 .. NumEntries[c] - 1
                    /\ \A b \in SeqBlocks(full[c]) : numFree[b] = 0
    <2>1. ~In(c, cs) => Sorted(c)
      BY <1>1, <1>2 DEF In, Sorting, Waiting
    <2>2. Distinct(partial[c]) /\ SeqBlocks(partial[c]) \cap SeqBlocks(full[c]) = {}
      BY DEF Shape
    <2>3. CASE c # h \/ best = NoBlock
      <3>1. blocks[c] = partial[c] /\ BlocksOf(c) = Listed(c)
        BY <1>7, <1>8, <2>3
      <3> QED
        BY <2>1, <2>2, <3>1 DEF Listed, Sorted
    <2>4. CASE c = h /\ best # NoBlock
      <3>1. /\ SeqBlocks(blocks[c]) = {best} \cup SeqBlocks(partial[c])
            /\ Distinct(blocks[c]) /\ best \notin Listed(c)
        BY <1>5, <1>7, <2>4
      <3>2. BlocksOf(c) = Listed(c) \cup {best}
        BY <1>8, <2>4
      <3>3. numFree[best] \in 1 .. NumEntries[c] - 1
        BY <2>4 DEF Sorting, h
      <3> QED
        BY <2>1, <2>2, <3>1, <3>2, <3>3 DEF Listed, Sorted
    <2> QED
      BY <2>3, <2>4
  <1> QED
    BY <1>1, <1>2, <1>3, <1>6, <1>9, DetachStep

-----------------------------------------------------------------------------
(* s_cleanup_blocks looks at one block.                                    *)
LEMMA NextBlock ==
    ASSUME IInv, pc = "sweep", todo # << >>,
           NEW c, c = Head(rest), NEW b, b = Head(todo)
    PROVE  /\ rest # << >> /\ c \in Caches /\ b \in Blocks
           /\ b \in Hand /\ b \in BlocksOf(c) /\ b \notin Listed(c) /\ b # best
           /\ SeqBlocks(todo) = {b} \cup SeqBlocks(Tail(todo))
           /\ Tail(todo) \in Seq(Blocks) /\ Distinct(Tail(todo))
           /\ b \notin SeqBlocks(Tail(todo)) /\ best \notin SeqBlocks(Tail(todo))
           /\ BlocksOf(c) = Listed(c) \cup Hand
           /\ \A d \in Caches \ {c} : BlocksOf(d) = Listed(d)
           /\ NumEntries[c] \in Nat /\ numFree[b] \in 0 .. NumEntries[c]
  <1> USE DEF IInv
  <1>1. rest # << >> /\ c \in Caches
    BY BlocksFacts DEF Phases
  <1>2. /\ b \in Blocks /\ b \in SeqBlocks(todo) /\ Tail(todo) \in Seq(Blocks)
        /\ SeqBlocks(todo) = {b} \cup SeqBlocks(Tail(todo))
        /\ Distinct(Tail(todo)) /\ b \notin SeqBlocks(Tail(todo))
    BY TailBlocks DEF TypeOK, Shape
  <1>3. BlocksOf(c) = Listed(c) \cup Hand /\ \A d \in Caches \ {c} : BlocksOf(d) = Listed(d)
    BY <1>1, BlocksFacts
  <1>4. b \in Hand
    BY <1>2 DEF Hand
  <1>5. b \in BlocksOf(c) /\ b \notin Listed(c)
    BY <1>1, <1>3, <1>4 DEF Shape
  <1>6. b # best /\ best \notin SeqBlocks(Tail(todo))
    BY <1>2 DEF Shape
  <1>7. NumEntries[c] \in Nat /\ numFree[b] \in 0 .. NumEntries[c]
    BY <1>1, <1>5, CountFacts, GeometryAssumption
  <1> QED
    BY <1>1, <1>2, <1>3, <1>4, <1>5, <1>6, <1>7

(* A block that the cache keeps, in whichever list.                        *)
LEMMA KeepStep ==
    ASSUME IInv, TypeOK', pc = "sweep", todo # << >>,
           NEW c, c = Head(rest),
           todo' = Tail(todo),
           UNCHANGED <<sweepUnchanged, pc, rest, freeBlocks, blockUsed>>,
           \A d \in Caches \ {c} : partial'[d] = partial[d] /\ full'[d] = full[d],
           Distinct(partial'[c]), Distinct(full'[c]),
           SeqBlocks(partial'[c]) \cap SeqBlocks(full'[c]) = {},
           Hand' \subseteq Hand,
           Listed(c)' \cap Hand' = {},
           Listed(c)' \cup Hand' = BlocksOf(c),
           best' \notin SeqBlocks(Tail(todo)),
           \A x \in SeqBlocks(partial'[c]) \ SeqBlocks(partial[c]) :
               numFree[x] \in 1 .. NumEntries[c] - 1,
           \A x \in SeqBlocks(full'[c]) \ SeqBlocks(full[c]) : numFree[x] = 0,
           best' # NoBlock => numFree[best'] \in 1 .. NumEntries[c] - 1
    PROVE  IInv'
  <1> USE DEF IInv
  <1>1. /\ caches' = caches /\ carved' = carved /\ used' = used /\ numFree' = numFree
        /\ nextFree' = nextFree /\ threshold' = threshold /\ held' = held
        /\ request' = request /\ marked' = marked /\ freeBlocks' = freeBlocks
        /\ blockUsed' = blockUsed /\ pc' = pc /\ rest' = rest
    BY DEF sweepUnchanged, bits
  <1>2. /\ rest # << >> /\ c \in Caches /\ Distinct(Tail(todo))
        /\ BlocksOf(c) = Listed(c) \cup Hand
        /\ \A d \in Caches \ {c} : BlocksOf(d) = Listed(d)
    BY NextBlock
  <1>3. \A d \in Caches : BlocksOf(d)' = BlocksOf(d)
    <2>1. BlocksOf(c)' = Listed(c)' \cup Hand'
      BY <1>1, <1>2 DEF BlocksOf, Listed, Hand
    <2>2. \A d \in Caches \ {c} : BlocksOf(d)' = Listed(d) /\ Listed(d)' = Listed(d)
      BY <1>1, <1>2 DEF BlocksOf, Listed
    <2> QED
      BY <1>2, <2>1, <2>2
  <1>4. Shape'
    <2>1. \A d \in Caches : /\ Distinct(partial[d])' /\ Distinct(full[d])'
                            /\ (SeqBlocks(partial[d]) \cap SeqBlocks(full[d]) = {})'
      BY DEF Shape
    <2>2. \A d \in Caches : (Listed(d) \cap Hand = {})'
      <3>1. \A d \in Caches \ {c} : Listed(d)' = Listed(d)
        BY DEF Listed
      <3> QED
        BY <3>1 DEF Shape
    <2> QED
      BY <1>1, <1>2, <2>1, <2>2 DEF Shape
  <1>5. Owned'
    BY <1>1, <1>3 DEF Owned
  <1>6. Phases'
    <2>1. Known(c)
      <3>1. Len(rest) \in Nat /\ DOMAIN rest = 1 .. Len(rest) /\ Len(rest) # 0
        BY <1>2, LenProperties, EmptySeq DEF TypeOK
      <3>2. 1 \in DOMAIN rest /\ c = rest[1]
        BY <1>2, <3>1
      <3> QED
        BY <3>2 DEF Phases
    <2>2. \A d \in Caches : ~Known(d)' => Listed(d)' = {}
      BY <1>1, <2>1 DEF Phases, Listed, Known
    <2> QED
      BY <1>1, <1>2, <2>2 DEF Phases, Known
  <1>7. BitsSound'
    <2>1. Current' = Current
      BY <1>1 DEF Current
    <2>2. \A d \in Caches : \A b : BlockSound(d, b)' <=> BlockSound(d, b)
      BY <1>1, <2>1 DEF BlockSound
    <2> QED
      BY <1>3, <2>2 DEF BitsSound
  <1>8. HeldOwned'
    <2>1. \A e \in held : e[1] \in Caches
      BY DEF TypeOK, Entries
    <2>2. \A e \in marked : e \in held /\ e[2] \in BlocksOf(e[1])
      BY DEF HeldOwned, TypeOK
    <2>3. \A e \in marked : e[2] \in BlocksOf(e[1])'
      BY <1>3, <2>1, <2>2
    <2> QED
      BY <1>1, <2>3 DEF HeldOwned
  <1>9. Sorting'
    <2>1. \A d \in Caches : Waiting(d)' <=> Waiting(d)
      BY <1>1 DEF Waiting
    <2>2. \A d \in Caches : Sorted(d) => Sorted(d)'
      BY <1>1 DEF Sorted
    <2> QED
      BY <1>1, <2>1, <2>2 DEF Sorting
  <1>10. FreeBlocksClean'
    BY <1>1 DEF FreeBlocksClean
  <1>11. BlockUsedExact'
    BY <1>1, <1>3 DEF BlockUsedExact
  <1> QED
    BY <1>4, <1>5, <1>6, <1>7, <1>8, <1>9, <1>10, <1>11

LEMMA KeepFullStep ==
    ASSUME IInv, pc = "sweep", todo # << >>, todo' = Tail(todo),
           NEW c, c = Head(rest), NEW b, b = Head(todo), KeepFull(c, b),
           UNCHANGED <<sweepUnchanged, pc, rest>>
    PROVE  IInv'
  <1> USE DEF IInv
  <1>1. /\ rest # << >> /\ c \in Caches /\ b \in Blocks
        /\ b \in Hand /\ b \in BlocksOf(c) /\ b \notin Listed(c) /\ b # best
        /\ SeqBlocks(todo) = {b} \cup SeqBlocks(Tail(todo))
        /\ Tail(todo) \in Seq(Blocks)
        /\ b \notin SeqBlocks(Tail(todo)) /\ best \notin SeqBlocks(Tail(todo))
        /\ BlocksOf(c) = Listed(c) \cup Hand
    BY NextBlock
  <1>2. /\ numFree[b] = 0
        /\ full' = [full EXCEPT ![c] = <<b>> \o full[c]]
        /\ partial' = partial /\ freeBlocks' = freeBlocks /\ blockUsed' = blockUsed
        /\ best' = best /\ freeBest' = freeBest
    BY DEF KeepFull, Full
  <1>3. /\ <<b>> \o full[c] \in Seq(Blocks)
        /\ SeqBlocks(<<b>> \o full[c]) = {b} \cup SeqBlocks(full[c])
        /\ Distinct(<<b>> \o full[c])
    <2>1. full[c] \in Seq(Blocks) /\ Distinct(full[c]) /\ b \notin SeqBlocks(full[c])
      BY <1>1 DEF TypeOK, Shape, Listed
    <2> QED
      BY <1>1, <2>1, ConsBlocks
  <1>4. /\ full' \in [Caches -> Seq(Blocks)]
        /\ full'[c] = <<b>> \o full[c]
        /\ \A d \in Caches \ {c} : full'[d] = full[d]
    BY <1>1, <1>2, <1>3 DEF TypeOK
  <1>5. TypeOK'
    BY <1>1, <1>2, <1>4 DEF TypeOK, sweepUnchanged, bits
  <1>6. Hand' = Hand \ {b}
    BY <1>1, <1>2 DEF Hand
  <1>7. Listed(c)' = Listed(c) \cup {b}
    BY <1>2, <1>3, <1>4 DEF Listed
  <1>8. SeqBlocks(partial'[c]) \cap SeqBlocks(full'[c]) = {} /\ Listed(c)' \cap Hand' = {}
    <2>1. SeqBlocks(partial[c]) \cap SeqBlocks(full[c]) = {} /\ Listed(c) \cap Hand = {}
      BY <1>1 DEF Shape
    <2>2. b \notin SeqBlocks(partial[c])
      BY <1>1 DEF Listed
    <2> QED
      BY <1>2, <1>3, <1>4, <1>6, <1>7, <2>1, <2>2
  <1>9. Listed(c)' \cup Hand' = BlocksOf(c)
    BY <1>1, <1>6, <1>7
  <1>10. /\ \A x \in SeqBlocks(full'[c]) \ SeqBlocks(full[c]) : numFree[x] = 0
         /\ \A x \in SeqBlocks(partial'[c]) \ SeqBlocks(partial[c]) :
               numFree[x] \in 1 .. NumEntries[c] - 1
         /\ best' # NoBlock => numFree[best'] \in 1 .. NumEntries[c] - 1
         /\ Distinct(partial'[c]) /\ Distinct(full'[c])
         /\ Hand' \subseteq Hand /\ best' \notin SeqBlocks(Tail(todo))
    BY <1>1, <1>2, <1>3, <1>4, <1>6 DEF Sorting, Shape
  <1>11. /\ \A d \in Caches \ {c} : partial'[d] = partial[d] /\ full'[d] = full[d]
         /\ UNCHANGED <<sweepUnchanged, pc, rest, freeBlocks, blockUsed>>
    BY <1>2, <1>4
  <1> QED
    BY <1>5, <1>8, <1>9, <1>10, <1>11, KeepStep

(* Of the block at hand and the best so far one goes to the list, the      *)
(* other becomes or stays the best.                                        *)
LEMMA KeepPartialStep ==
    ASSUME IInv, pc = "sweep", todo # << >>, todo' = Tail(todo),
           NEW c, c = Head(rest), NEW b, b = Head(todo), KeepPartial(c, b),
           UNCHANGED <<sweepUnchanged, pc, rest>>
    PROVE  IInv'
  <1> USE DEF IInv
  <1>1. /\ rest # << >> /\ c \in Caches /\ b \in Blocks
        /\ b \in Hand /\ b \in BlocksOf(c) /\ b \notin Listed(c) /\ b # best
        /\ SeqBlocks(todo) = {b} \cup SeqBlocks(Tail(todo))
        /\ Tail(todo) \in Seq(Blocks)
        /\ b \notin SeqBlocks(Tail(todo)) /\ best \notin SeqBlocks(Tail(todo))
        /\ BlocksOf(c) = Listed(c) \cup Hand
        /\ NumEntries[c] \in Nat /\ numFree[b] \in 0 .. NumEntries[c]
    BY NextBlock
  <1>2. numFree[b] \in 1 .. NumEntries[c] - 1 /\ numFree[b] \in Nat
    BY <1>1 DEF KeepPartial, Full, Empty
  <1>3. NoBlock \notin Blocks
    BY NamesAssumption DEF Blocks
  <1>4. \/ best = NoBlock /\ best' = b /\ partial' = partial /\ freeBest' = numFree[b]
        \/ /\ best # NoBlock
           /\ \E other \in {b, best} :
                /\ best' \in {b, best} \ {other}
                /\ partial' = [partial EXCEPT ![c] = <<other>> \o partial[c]]
                /\ freeBest' \in {freeBest, numFree[other]}
    <2>1. CASE best = NoBlock
      BY <2>1 DEF KeepPartial
    <2>2. CASE best # NoBlock
      <3>1. CASE numFree[b] < freeBest
        BY <1>1, <2>2, <3>1 DEF KeepPartial
      <3>2. CASE ~(numFree[b] < freeBest)
        BY <1>1, <2>2, <3>2 DEF KeepPartial
      <3> QED
        BY <3>1, <3>2
    <2> QED
      BY <2>1, <2>2
  <1>5. full' = full /\ freeBlocks' = freeBlocks /\ blockUsed' = blockUsed
    BY DEF KeepPartial
  <1>6. /\ best \in Blocks \cup {NoBlock} /\ freeBest \in Nat
        /\ partial \in [Caches -> Seq(Blocks)] /\ partial[c] \in Seq(Blocks)
        /\ \A x \in {b, best} : x # NoBlock =>
              /\ x \in Blocks /\ x \in Hand /\ x \notin Listed(c)
              /\ numFree[x] \in 1 .. NumEntries[c] - 1 /\ numFree[x] \in Nat
    <2>1. best # NoBlock => /\ best \in Hand /\ best \notin Listed(c)
                            /\ numFree[best] \in 1 .. NumEntries[c] - 1
      BY <1>1 DEF Hand, Shape, Sorting
    <2> QED
      BY <1>1, <1>2, <2>1 DEF TypeOK
  <1>7. PICK moved \in SUBSET {b, best} :
            /\ best' \in Blocks /\ freeBest' \in Nat
            /\ partial' \in [Caches -> Seq(Blocks)]
            /\ \A d \in Caches \ {c} : partial'[d] = partial[d]
            /\ SeqBlocks(partial'[c]) = SeqBlocks(partial[c]) \cup moved
            /\ Distinct(partial'[c])
            /\ NoBlock \notin moved
            /\ best' \in {b, best} \ moved
            /\ {b, best} \ {NoBlock} = moved \cup {best'}
    <2>1. CASE best = NoBlock
      <3>1. best' = b /\ partial' = partial /\ freeBest' = numFree[b]
        BY <1>4, <2>1
      <3>2. Distinct(partial[c])
        BY <1>1 DEF Shape
      <3> WITNESS {} \in SUBSET {b, best}
      <3> QED
        BY <1>1, <1>2, <1>3, <1>6, <2>1, <3>1, <3>2
    <2>2. CASE best # NoBlock
      <3>1. PICK other \in {b, best} :
                /\ best' \in {b, best} \ {other}
                /\ partial' = [partial EXCEPT ![c] = <<other>> \o partial[c]]
                /\ freeBest' \in {freeBest, numFree[other]}
        BY <1>4, <2>2
      <3>2. other \in Blocks /\ other \notin SeqBlocks(partial[c]) /\ Distinct(partial[c])
        BY <1>1, <1>3, <1>6, <2>2, <3>1 DEF Listed, Shape
      <3>3. /\ <<other>> \o partial[c] \in Seq(Blocks)
            /\ SeqBlocks(<<other>> \o partial[c]) = {other} \cup SeqBlocks(partial[c])
            /\ Distinct(<<other>> \o partial[c])
        BY <1>6, <3>2, ConsBlocks
      <3>4. /\ partial' \in [Caches -> Seq(Blocks)]
            /\ partial'[c] = <<other>> \o partial[c]
            /\ \A d \in Caches \ {c} : partial'[d] = partial[d]
        BY <1>1, <1>6, <3>1, <3>3
      <3>5. {b, best} \ {NoBlock} = {other, best'} /\ best' \in Blocks /\ freeBest' \in Nat
        BY <1>1, <1>3, <1>6, <2>2, <3>1
      <3> WITNESS {other} \in SUBSET {b, best}
      <3> QED
        BY <1>3, <3>1, <3>2, <3>3, <3>4, <3>5
    <2> QED
      BY <2>1, <2>2
  <1>8. TypeOK'
    BY <1>1, <1>5, <1>7 DEF TypeOK, sweepUnchanged, bits
  <1>9. Hand' = Hand \ moved
    <2>1. Hand = SeqBlocks(Tail(todo)) \cup ({b, best} \ {NoBlock})
      BY <1>1, <1>3 DEF Hand
    <2>2. Hand' = SeqBlocks(Tail(todo)) \cup {best'}
      BY <1>3, <1>7 DEF Hand
    <2> QED
      BY <1>1, <1>7, <2>1, <2>2
  <1>10. Listed(c)' = Listed(c) \cup moved /\ moved \subseteq Hand /\ moved \cap Listed(c) = {}
    <2>1. Listed(c)' = Listed(c) \cup moved
      BY <1>5, <1>7 DEF Listed
    <2>2. \A x \in moved : x \in {b, best} /\ x # NoBlock
      BY <1>7
    <2>3. \A x \in moved : x \in Hand /\ x \notin Listed(c)
      BY <1>6, <2>2
    <2> QED
      BY <2>1, <2>3
  <1>11. SeqBlocks(partial'[c]) \cap SeqBlocks(full'[c]) = {} /\ Listed(c)' \cap Hand' = {}
    BY <1>1, <1>5, <1>7, <1>9, <1>10 DEF Shape, Listed
  <1>12. Listed(c)' \cup Hand' = BlocksOf(c) /\ Hand' \subseteq Hand
    BY <1>1, <1>9, <1>10
  <1>13. /\ \A x \in SeqBlocks(full'[c]) \ SeqBlocks(full[c]) : numFree[x] = 0
         /\ \A x \in SeqBlocks(partial'[c]) \ SeqBlocks(partial[c]) :
               numFree[x] \in 1 .. NumEntries[c] - 1
         /\ best' # NoBlock => numFree[best'] \in 1 .. NumEntries[c] - 1
    BY <1>3, <1>5, <1>6, <1>7
  <1>14. /\ Distinct(partial'[c]) /\ Distinct(full'[c])
         /\ best' \notin SeqBlocks(Tail(todo))
    BY <1>1, <1>5, <1>7 DEF Shape
  <1>15. /\ \A d \in Caches \ {c} : partial'[d] = partial[d] /\ full'[d] = full[d]
         /\ UNCHANGED <<sweepUnchanged, pc, rest, freeBlocks, blockUsed>>
    BY <1>5, <1>7
  <1> QED
    BY <1>8, <1>11, <1>12, <1>13, <1>14, <1>15, KeepStep

(* A block without entries in use goes back to the arena.                  *)
LEMMA GiveBackStep ==
    ASSUME IInv, pc = "sweep", todo # << >>, todo' = Tail(todo),
           NEW c, c = Head(rest), NEW b, b = Head(todo), GiveBack(c, b),
           UNCHANGED <<sweepUnchanged, pc, rest>>
    PROVE  IInv'
  <1> USE DEF IInv
  <1>1. /\ rest # << >> /\ c \in Caches /\ b \in Blocks
        /\ b \in Hand /\ b \in BlocksOf(c) /\ b \notin Listed(c) /\ b # best
        /\ SeqBlocks(todo) = {b} \cup SeqBlocks(Tail(todo))
        /\ Tail(todo) \in Seq(Blocks) /\ Distinct(Tail(todo))
        /\ b \notin SeqBlocks(Tail(todo)) /\ best \notin SeqBlocks(Tail(todo))
        /\ BlocksOf(c) = Listed(c) \cup Hand
        /\ \A d \in Caches \ {c} : BlocksOf(d) = Listed(d)
    BY NextBlock
  <1>2. /\ numFree[b] = NumEntries[c]
        /\ freeBlocks' = <<b>> \o freeBlocks /\ blockUsed' = blockUsed - 1
        /\ partial' = partial /\ full' = full /\ best' = best /\ freeBest' = freeBest
        /\ caches' = caches /\ carved' = carved /\ used' = used /\ numFree' = numFree
        /\ nextFree' = nextFree /\ threshold' = threshold /\ held' = held
        /\ request' = request /\ marked' = marked /\ pc' = pc /\ rest' = rest
    BY DEF GiveBack, Empty, sweepUnchanged, bits
  <1>3. \A d \in Caches \ {c} : b \notin BlocksOf(d)
    BY <1>1 DEF Owned
  <1>4. /\ <<b>> \o freeBlocks \in Seq(Blocks)
        /\ SeqBlocks(<<b>> \o freeBlocks) = {b} \cup SeqBlocks(freeBlocks)
        /\ Distinct(<<b>> \o freeBlocks)
    <2>1. freeBlocks \in Seq(Blocks) /\ Distinct(freeBlocks) /\ b \notin SeqBlocks(freeBlocks)
      BY <1>1 DEF TypeOK, Shape, Owned
    <2> QED
      BY <1>1, <2>1, ConsBlocks
  <1>5. Hand' = Hand \ {b}
    BY <1>1, <1>2 DEF Hand
  <1>6. \A d \in Caches : Listed(d)' = Listed(d) /\ BlocksOf(d)' = BlocksOf(d) \ {b}
    <2> SUFFICES ASSUME NEW d \in Caches
                 PROVE  Listed(d)' = Listed(d) /\ BlocksOf(d)' = BlocksOf(d) \ {b}
      OBVIOUS
    <2>1. Listed(d)' = Listed(d)
      BY <1>2 DEF Listed
    <2>2. BlocksOf(d)' = Listed(d)' \cup (IF d = c THEN Hand' ELSE {})
      BY <1>1, <1>2 DEF BlocksOf, Listed, Hand
    <2> QED
      BY <1>1, <1>3, <1>5, <2>1, <2>2
  <1>7. AllBlocks' = AllBlocks \ {b} /\ b \in AllBlocks
    BY <1>1, <1>6 DEF AllBlocks
  <1>8. /\ Cardinality(AllBlocks') = Cardinality(AllBlocks) - 1
        /\ Cardinality(AllBlocks) \in Nat /\ Cardinality(AllBlocks) # 0
    <2>1. IsFiniteSet(AllBlocks)
      BY BlocksFacts
    <2> HIDE DEF AllBlocks
    <2> QED
      BY <1>7, <2>1, FS_RemoveElement, FS_CardinalityType, FS_EmptySet
  <1>9. blockUsed = Cardinality(AllBlocks) + (IF request = NoCache THEN 0 ELSE 1)
    BY DEF BlockUsedExact, AllBlocks
  <1>10. BlockUsedExact' /\ blockUsed' \in Nat
    <2>1. blockUsed' = Cardinality(AllBlocks') + (IF request = NoCache THEN 0 ELSE 1)
      BY <1>2, <1>8, <1>9
    <2>2. blockUsed' \in Nat
      BY <1>2, <1>8, <1>9
    <2> QED
      BY <1>2, <2>1, <2>2 DEF BlockUsedExact, AllBlocks
  <1>11. TypeOK'
    BY <1>1, <1>2, <1>4, <1>10 DEF TypeOK
  <1>12. Shape'
    <2>1. \A d \in Caches : Listed(d)' \cap Hand' = {}
      BY <1>5, <1>6 DEF Shape
    <2>2. \A d \in Caches : /\ Distinct(partial'[d]) /\ Distinct(full'[d])
                            /\ SeqBlocks(partial'[d]) \cap SeqBlocks(full'[d]) = {}
      BY <1>2 DEF Shape
    <2>3. Distinct(freeBlocks') /\ Distinct(todo') /\ best' \notin SeqBlocks(todo')
      BY <1>1, <1>2, <1>4
    <2> QED
      BY <2>1, <2>2, <2>3 DEF Shape
  <1>13. Owned'
    <2>1. \A d, e \in Caches : d # e => BlocksOf(d)' \cap BlocksOf(e)' = {}
      BY <1>6 DEF Owned
    <2>2. \A d \in Caches : BlocksOf(d)' \cap SeqBlocks(freeBlocks') = {}
      BY <1>2, <1>4, <1>6 DEF Owned
    <2>3. \A x \in Blocks : x <= carved' <=>
             x \in SeqBlocks(freeBlocks') \/ \E d \in Caches : x \in BlocksOf(d)'
      BY <1>1, <1>2, <1>4, <1>6 DEF Owned
    <2> QED
      BY <2>1, <2>2, <2>3 DEF Owned
  <1>14. Phases'
    BY <1>1, <1>2, <1>6 DEF Phases, Known
  <1>15. BitsSound'
    <2> SUFFICES ASSUME NEW d \in Caches, NEW x \in BlocksOf(d) PROVE BlockSound(d, x)'
      BY <1>6 DEF BitsSound
    <2>1. BlockSound(d, x)
      BY DEF BitsSound
    <2> QED
      BY <1>2, <2>1 DEF BlockSound, Current
  <1>16. BlockSound(c, b) /\ Places(c) \cap used[b] = {}
    BY <1>1, <1>2, CountFacts DEF BitsSound
  <1>17. HeldOwned'
    <2>1. \A e \in marked : /\ e \in held /\ e[2] \in BlocksOf(e[1])
                            /\ e[1] \in Caches /\ e[3] \in Places(e[1])
                            /\ e = <<e[1], e[2], e[3]>>
      <3> SUFFICES ASSUME NEW e \in marked
                   PROVE  /\ e \in held /\ e[2] \in BlocksOf(e[1])
                          /\ e[1] \in Caches /\ e[3] \in Places(e[1])
                          /\ e = <<e[1], e[2], e[3]>>
        OBVIOUS
      <3>1. e \in held /\ e \in Entries /\ e[2] \in BlocksOf(e[1])
        BY DEF HeldOwned, TypeOK
      <3> QED
        BY <3>1 DEF Entries
    <2>2. Current = marked
      BY DEF Current
    <2>3. \A e \in marked : e[2] # b
      <3> SUFFICES ASSUME NEW e \in marked, e[2] = b PROVE FALSE
        OBVIOUS
      <3>1. e[1] = c
        BY <1>3, <2>1
      <3>2. e = <<c, b, e[3]>> /\ e[3] \in Places(c)
        BY <2>1, <3>1
      <3>3. e[3] \in used[b] \cap Places(c)
        BY <1>16, <2>2, <3>2 DEF BlockSound
      <3> QED
        BY <1>16, <3>3
    <2>4. \A e \in marked : e[2] \in BlocksOf(e[1])'
      BY <1>6, <2>1, <2>3
    <2> QED
      BY <1>2, <2>4 DEF HeldOwned
  <1>18. Sorting'
    BY <1>2 DEF Sorting, Sorted, Waiting
  <1>19. FreeBlocksClean'
    <2>1. used[b] = ClearedBits(c)
      <3>1. ClearedBits(c) \subseteq used[b] /\ used[b] \subseteq Places(c) \cup ClearedBits(c)
        BY <1>16 DEF BlockSound
      <3> QED
        BY <1>16, <3>1
    <2>2. \A d \in Caches : NumEntries[d] = NumEntries[c] => ClearedBits(d) = ClearedBits(c)
      BY DEF ClearedBits, Units
    <2> QED
      BY <1>2, <1>4, <2>1, <2>2 DEF FreeBlocksClean
  <1> QED
    BY <1>10, <1>11, <1>12, <1>13, <1>14, <1>15, <1>17, <1>18, <1>19

LEMMA SweepBlockStep ==
    ASSUME IInv, SweepBlock
    PROVE  IInv'
  <1>1. PICK c, b : c = Head(rest) /\ b = Head(todo)
    OBVIOUS
  <1>2. /\ pc = "sweep" /\ todo # << >> /\ todo' = Tail(todo)
        /\ UNCHANGED <<sweepUnchanged, pc, rest>>
        /\ KeepFull(c, b) \/ GiveBack(c, b) \/ KeepPartial(c, b)
    BY <1>1 DEF SweepBlock
  <1>3. CASE KeepFull(c, b)
    BY <1>1, <1>2, <1>3, KeepFullStep
  <1>4. CASE GiveBack(c, b)
    BY <1>1, <1>2, <1>4, GiveBackStep
  <1>5. CASE KeepPartial(c, b)
    BY <1>1, <1>2, <1>5, KeepPartialStep
  <1> QED
    BY <1>2, <1>3, <1>4, <1>5

-----------------------------------------------------------------------------
(* The other steps.                                                        *)

LEMMA NewCacheStep ==
    ASSUME IInv, NEW c \in Caches, NewCache(c)
    PROVE  IInv'
  <1> USE DEF IInv
  <1>1. /\ pc = "idle" /\ caches' = <<c>> \o caches
        /\ partial' = partial /\ full' = full
        /\ freeBlocks' = freeBlocks /\ carved' = carved /\ used' = used
        /\ numFree' = numFree /\ nextFree' = nextFree
        /\ blockUsed' = blockUsed /\ threshold' = threshold /\ held' = held
        /\ request' = request /\ marked' = marked /\ pc' = pc
        /\ rest' = rest /\ todo' = todo /\ best' = best /\ freeBest' = freeBest
    BY DEF NewCache, lists, bits, gcVars, sweepVars
  <1>2. /\ caches' \in Seq(Caches)
        /\ SeqBlocks(caches') = {c} \cup SeqBlocks(caches)
    BY <1>1, ConsBlocks DEF TypeOK
  <1>3. TypeOK'
    BY <1>1, <1>2 DEF TypeOK
  <1>4. Hand' = Hand /\ \A d \in Caches : Listed(d)' = Listed(d) /\ BlocksOf(d)' = BlocksOf(d)
    BY <1>1 DEF BlocksOf, Listed, Hand
  <1>5. \A d : Known(d) => Known(d)'
    <2>1. \A d : Known(d) <=> d \in SeqBlocks(caches)
      BY DEF Known, SeqBlocks
    <2>2. \A d : Known(d)' <=> d \in SeqBlocks(caches')
      BY DEF Known, SeqBlocks
    <2> QED
      BY <1>2, <2>1, <2>2
  <1>6. Shape' /\ Owned'
    <2>1. Shape'
      BY <1>1, <1>4 DEF Shape
    <2>2. Owned'
      BY <1>1, <1>4 DEF Owned
    <2> QED
      BY <2>1, <2>2
  <1>7. Phases'
    <2>1. rest = << >> /\ request = NoCache
      BY <1>1 DEF Phases
    <2>2. \A d \in Caches : ~Known(d)' => Listed(d)' = {}
      BY <1>4, <1>5 DEF Phases
    <2> QED
      BY <1>1, <2>1, <2>2, EmptySeq DEF Phases
  <1>8. BitsSound'
    BY <1>1, <1>4 DEF BitsSound, BlockSound, Current
  <1>9. HeldOwned'
    <2>1. \A e \in held : e[1] \in Caches
      BY DEF TypeOK, Entries
    <2> QED
      BY <1>1, <1>4, <2>1 DEF HeldOwned, TypeOK
  <1>10. Sorting' /\ FreeBlocksClean'
    BY <1>1 DEF Sorting, Sorted, Waiting, FreeBlocksClean
  <1>11. BlockUsedExact'
    BY <1>1, <1>4 DEF BlockUsedExact
  <1> QED
    BY <1>3, <1>6, <1>7, <1>8, <1>9, <1>10, <1>11

(* The bits are those of the marked entries, which are all that is left.   *)
LEMMA EndGCStep ==
    ASSUME IInv, EndGC
    PROVE  IInv'
  <1> USE DEF IInv
  <1>1. /\ pc = "sweep" /\ rest = << >> /\ request = NoCache
        /\ pc' = "idle" /\ held' = marked /\ marked' = {}
        /\ caches' = caches /\ partial' = partial /\ full' = full
        /\ freeBlocks' = freeBlocks /\ carved' = carved /\ used' = used
        /\ numFree' = numFree /\ nextFree' = nextFree
        /\ blockUsed' = blockUsed /\ threshold' = threshold
        /\ request' = request
        /\ rest' = rest /\ todo' = todo /\ best' = best /\ freeBest' = freeBest
    BY DEF EndGC, lists, bits, sweepVars
  <1>2. TypeOK'
    BY <1>1 DEF TypeOK
  <1>3. Hand' = Hand /\ \A d \in Caches : Listed(d)' = Listed(d) /\ BlocksOf(d)' = BlocksOf(d)
    BY <1>1 DEF BlocksOf, Listed, Hand
  <1>4. Shape' /\ Owned'
    BY <1>1, <1>3 DEF Shape, Owned
  <1>5. Phases'
    BY <1>1, <1>3 DEF Phases, Known
  <1>6. BitsSound'
    <2>1. Current' = Current
      BY <1>1 DEF Current
    <2> QED
      BY <1>1, <1>3, <2>1 DEF BitsSound, BlockSound
  <1>7. HeldOwned'
    <2>1. \A e \in marked : /\ e[1] \in Caches /\ e[2] <= carved /\ e[2] \in BlocksOf(e[1])
      BY DEF TypeOK, Entries, HeldOwned
    <2> QED
      BY <1>1, <1>3, <2>1 DEF HeldOwned
  <1>8. Sorting' /\ FreeBlocksClean'
    BY <1>1 DEF Sorting, Sorted, Waiting, FreeBlocksClean
  <1>9. BlockUsedExact'
    BY <1>1, <1>3 DEF BlockUsedExact
  <1> QED
    BY <1>2, <1>4, <1>5, <1>6, <1>7, <1>8, <1>9

LEMMA StutterStep ==
    ASSUME IInv, UNCHANGED vars
    PROVE  IInv'
  <1> USE DEF IInv
  <1>1. /\ caches' = caches /\ partial' = partial /\ full' = full
        /\ freeBlocks' = freeBlocks /\ carved' = carved /\ used' = used
        /\ numFree' = numFree /\ nextFree' = nextFree
        /\ blockUsed' = blockUsed /\ threshold' = threshold /\ held' = held
        /\ request' = request /\ marked' = marked /\ pc' = pc
        /\ rest' = rest /\ todo' = todo /\ best' = best /\ freeBest' = freeBest
    BY DEF vars, lists, bits, gcVars, sweepVars
  <1>2. TypeOK'
    BY <1>1 DEF TypeOK
  <1>3. Hand' = Hand /\ \A d \in Caches : Listed(d)' = Listed(d) /\ BlocksOf(d)' = BlocksOf(d)
    BY <1>1 DEF BlocksOf, Listed, Hand
  <1>4. Shape' /\ Owned' /\ Phases'
    BY <1>1, <1>3 DEF Shape, Owned, Phases, Known
  <1>5. BitsSound'
    BY <1>1, <1>3 DEF BitsSound, BlockSound, Current
  <1>6. HeldOwned'
    <2>1. \A e \in held : e[1] \in Caches
      BY DEF TypeOK, Entries
    <2> QED
      BY <1>1, <1>3, <2>1 DEF HeldOwned, TypeOK
  <1>7. Sorting' /\ FreeBlocksClean'
    BY <1>1 DEF Sorting, Sorted, Waiting, FreeBlocksClean
  <1>8. BlockUsedExact'
    BY <1>1, <1>3 DEF BlockUsedExact
  <1> QED
    BY <1>2, <1>4, <1>5, <1>6, <1>7, <1>8

LEMMA InitInv ==
    ASSUME Init
    PROVE  IInv
  <1> USE DEF Init, IInv
  <1>1. << >> \in Seq(Blocks) /\ << >> \in Seq(Caches)
    OBVIOUS
  <1>2. TypeOK
    BY <1>1, BoundsAssumption DEF TypeOK
  <1>3. /\ Hand = {} /\ SeqBlocks(freeBlocks) = {}
        /\ \A c \in Caches : /\ Listed(c) = {} /\ BlocksOf(c) = {}
                             /\ partial[c] = << >> /\ full[c] = << >>
                             /\ SeqBlocks(partial[c]) = {} /\ SeqBlocks(full[c]) = {}
    BY EmptyBlocks DEF Hand, Listed, BlocksOf
  <1>4. Shape
    BY <1>3, EmptyBlocks DEF Shape
  <1>5. Owned
    BY <1>3 DEF Owned, Blocks
  <1>6. Phases
    BY <1>3, EmptySeq DEF Phases
  <1>7. BitsSound /\ HeldOwned /\ FreeBlocksClean
    BY <1>3 DEF BitsSound, HeldOwned, FreeBlocksClean
  <1>8. Sorting
    BY <1>3 DEF Sorting, Sorted
  <1>9. BlockUsedExact
    <2>1. UNION {BlocksOf(c) : c \in Caches} = {}
      BY <1>3
    <2> QED
      BY <2>1, FS_EmptySet DEF BlockUsedExact
  <1> QED
    BY <1>2, <1>4, <1>5, <1>6, <1>7, <1>8, <1>9

LEMMA StepInv ==
    ASSUME IInv, [Next]_vars
    PROVE  IInv'
  <1>1. ASSUME NEW c \in Caches, NewCache(c) PROVE IInv'
    BY <1>1, NewCacheStep
  <1>2. ASSUME NEW c \in Caches, AllocPartial(c) PROVE IInv'
    BY <1>2, AllocPartialStep
  <1>3. ASSUME NEW c \in Caches, AllocFree(c) PROVE IInv'
    BY <1>3, AllocFreeStep
  <1>4. ASSUME NEW c \in Caches, AllocCarve(c) PROVE IInv'
    BY <1>4, AllocCarveStep
  <1>5. ASSUME NEW c \in Caches, AllocCollects(c) PROVE IInv'
    BY <1>5, AllocCollectsStep
  <1>6. CASE PerformGC
    BY <1>6, PerformGCStep
  <1>7. ASSUME NEW e \in held, Mark(e) PROVE IInv'
    BY <1>7, MarkStep
  <1>8. CASE StartSweep
    BY <1>8, StartSweepStep
  <1>9. CASE SweepBlock
    BY <1>9, SweepBlockStep
  <1>10. CASE SweepCache
    BY <1>10, SweepCacheStep
  <1>11. CASE EndGC
    BY <1>11, EndGCStep
  <1>12. CASE EndGCThenCarve
    BY <1>12, EndGCThenCarveStep
  <1>13. CASE UNCHANGED vars
    BY <1>13, StutterStep
  <1> QED
    BY <1>1, <1>2, <1>3, <1>4, <1>5, <1>6, <1>7, <1>8, <1>9, <1>10, <1>11, <1>12, <1>13
       DEF Next, Sweeping

(* The counts, bits, lists and thresholds agree in every state, in the     *)
(* middle of a sweep too (gc_jgc.c:303-653): the invariant from which each *)
(* of the theorems below takes its part.                                   *)
THEOREM Invariance == Spec => []IInv
  <1>1. Init => IInv
    BY InitInv
  <1>2. IInv /\ [Next]_vars => IInv'
    BY StepInv
  <1> QED
    BY <1>1, <1>2, PTL DEF Spec

-----------------------------------------------------------------------------
(* Type correctness; in particular num_free and block_used, which the code *)
(* decrements without a check, never underflow.                            *)
THEOREM Typing == Spec => []TypeOK
  <1>1. IInv => TypeOK
    BY DEF IInv
  <1> QED
    BY <1>1, Invariance, PTL

(* num_free of every block of a cache counts the entries whose bit is      *)
(* clear, also while the collector marks and s_cleanup_blocks sorts.       *)
THEOREM CountsFree == Spec => []FreeCountExact
  <1>1. IInv => FreeCountExact
    BY DEF IInv, BitsSound, BlockSound, FreeCountExact
  <1> QED
    BY <1>1, Invariance, PTL

(* The bits are those of the entries handed out and, from clear_used_bits  *)
(* on, of the entries s_set_used_bit was called for.                       *)
THEOREM BitsTell == Spec => []BitsAreEntries
  <1>1. IInv => BitsAreEntries
    BY DEF IInv, BitsSound, BlockSound, BitsAreEntries, Current
  <1> QED
    BY <1>1, Invariance, PTL

(* Between collections full_blocks holds the full blocks, and blocks those *)
(* with a free entry and one in use.                                       *)
THEOREM ListsSorted == Spec => []ListsMatchCounts
  <1>1. ASSUME IInv PROVE ListsMatchCounts
    <2>1. pc = "idle" => \A c \in Caches : Sorted(c)
      BY <1>1, EmptySeq DEF IInv, Sorting, Phases, Waiting
    <2> QED
      BY <2>1 DEF ListsMatchCounts, Sorted
  <1> QED
    BY <1>1, Invariance, PTL

(* A block of the free list that a cache would take for one of its own     *)
(* empty blocks has the bits of one.                                       *)
THEOREM FreeListClean == Spec => []FreeBlocksClean
  <1>1. IInv => FreeBlocksClean
    BY DEF IInv
  <1> QED
    BY <1>1, Invariance, PTL

(* block_used counts the blocks in use and the one being asked for.        *)
THEOREM CountsBlocks == Spec => []BlockUsedExact
  <1>1. IInv => BlockUsedExact
    BY DEF IInv
  <1> QED
    BY <1>1, Invariance, PTL

-----------------------------------------------------------------------------
(* Every carved block is in one place.                                     *)
LEMMA AtFacts ==
    ASSUME NEW s, NEW b
    PROVE  /\ b \notin SeqBlocks(s) => At(s, b) = {}
           /\ b \in SeqBlocks(s) /\ Distinct(s) => \E k : At(s, b) = {k}
  <1>1. b \notin SeqBlocks(s) => At(s, b) = {}
    BY DEF At, SeqBlocks
  <1>2. ASSUME b \in SeqBlocks(s), Distinct(s) PROVE \E k : At(s, b) = {k}
    <2>1. PICK k \in DOMAIN s : s[k] = b
      BY <1>2 DEF SeqBlocks
    <2>2. At(s, b) = {k}
      BY <1>2, <2>1 DEF At, Distinct
    <2> QED
      BY <2>2
  <1> QED
    BY <1>1, <1>2

LEMMA OneSpot ==
    ASSUME IInv, NEW b \in Blocks
    PROVE  Cardinality(SpotsOf(b)) = IF b <= carved THEN 1 ELSE 0
  <1> USE DEF IInv
  <1> DEFINE InPartial == UNION {{<<"blocks", c>>} \X At(partial[c], b) : c \in Caches}
             InFull    == UNION {{<<"full_blocks", c>>} \X At(full[c], b) : c \in Caches}
             InFree    == {<<"free_blocks", NoCache>>} \X At(freeBlocks, b)
             InTodo    == {<<"todo", NoCache>>} \X At(todo, b)
             InBest    == {<<"best", NoCache>>} \X At(<<best>>, b)
  <1>1. SpotsOf(b) = InPartial \cup InFull \cup InFree \cup InTodo \cup InBest
    BY DEF SpotsOf
  <1>2. (\A c \in Caches : b \notin SeqBlocks(partial[c])) => InPartial = {}
    BY AtFacts
  <1>3. (\A c \in Caches : b \notin SeqBlocks(full[c])) => InFull = {}
    BY AtFacts
  <1>4. /\ b \notin SeqBlocks(freeBlocks) => InFree = {}
        /\ b \in SeqBlocks(freeBlocks) => \E x : InFree = {x}
    <2>1. b \in SeqBlocks(freeBlocks) => \E k : At(freeBlocks, b) = {k}
      BY AtFacts DEF Shape
    <2>2. \A k : At(freeBlocks, b) = {k} => InFree = {<<<<"free_blocks", NoCache>>, k>>}
      OBVIOUS
    <2>3. b \notin SeqBlocks(freeBlocks) => InFree = {}
      BY AtFacts
    <2> QED
      BY <2>1, <2>2, <2>3
  <1>5. /\ b \notin SeqBlocks(todo) => InTodo = {}
        /\ b \in SeqBlocks(todo) => \E x : InTodo = {x}
    <2>1. b \in SeqBlocks(todo) => \E k : At(todo, b) = {k}
      BY AtFacts DEF Shape
    <2>2. \A k : At(todo, b) = {k} => InTodo = {<<<<"todo", NoCache>>, k>>}
      OBVIOUS
    <2>3. b \notin SeqBlocks(todo) => InTodo = {}
      BY AtFacts
    <2> QED
      BY <2>1, <2>2, <2>3
  <1>6. /\ b # best => InBest = {}
        /\ b = best => \E x : InBest = {x}
    <2>1. b # best => At(<<best>>, b) = {}
      BY DEF At
    <2>2. b = best => At(<<best>>, b) = {1}
      BY DEF At
    <2>3. At(<<best>>, b) = {1} => InBest = {<<<<"best", NoCache>>, 1>>}
      OBVIOUS
    <2> QED
      BY <2>1, <2>2, <2>3
  <1>7. ASSUME NEW c \in Caches, \A d \in Caches \ {c} : b \notin SeqBlocks(partial[d]),
               b \in SeqBlocks(partial[c])
        PROVE  \E x : InPartial = {x}
    <2>1. PICK k : At(partial[c], b) = {k}
      BY <1>7, AtFacts DEF Shape
    <2>2. \A d \in Caches \ {c} : At(partial[d], b) = {}
      BY <1>7, AtFacts
    <2>3. InPartial = {<<<<"blocks", c>>, k>>}
      BY <2>1, <2>2
    <2> QED
      BY <2>3
  <1>8. ASSUME NEW c \in Caches, \A d \in Caches \ {c} : b \notin SeqBlocks(full[d]),
               b \in SeqBlocks(full[c])
        PROVE  \E x : InFull = {x}
    <2>1. PICK k : At(full[c], b) = {k}
      BY <1>8, AtFacts DEF Shape
    <2>2. \A d \in Caches \ {c} : At(full[d], b) = {}
      BY <1>8, AtFacts
    <2>3. InFull = {<<<<"full_blocks", c>>, k>>}
      BY <2>1, <2>2
    <2> QED
      BY <2>3
  <1> HIDE DEF InPartial, InFull, InFree, InTodo, InBest
  <1>9. /\ b \in Hand <=> b \in SeqBlocks(todo) \/ b = best
        /\ ~(b \in SeqBlocks(todo) /\ b = best)
    BY NamesAssumption DEF Hand, Shape, Blocks
  <1>10. b \in Hand => rest # << >> /\ Head(rest) \in Caches /\ b \in BlocksOf(Head(rest))
    <2>1. b \in Hand => rest # << >>
      BY EmptyBlocks, NamesAssumption DEF Hand, Phases, Blocks
    <2> QED
      BY <2>1, BlocksFacts
  <1>11. \A c \in Caches : b \in SeqBlocks(partial[c]) \/ b \in SeqBlocks(full[c]) => b \in BlocksOf(c)
    BY BlocksFacts DEF Listed
  <1>12. CASE \E c \in Caches : b \in BlocksOf(c)
    <2>1. PICK c \in Caches : b \in BlocksOf(c)
      BY <1>12
    <2>2. /\ \A d \in Caches \ {c} : b \notin BlocksOf(d)
          /\ b \notin SeqBlocks(freeBlocks) /\ b <= carved
      BY <2>1 DEF Owned
    <2>3. /\ b \in SeqBlocks(partial[c]) \/ b \in SeqBlocks(full[c]) \/ b \in Hand
          /\ ~(b \in SeqBlocks(partial[c]) /\ b \in SeqBlocks(full[c]))
          /\ b \in Hand => b \notin SeqBlocks(partial[c]) /\ b \notin SeqBlocks(full[c])
      BY <2>1, BlocksFacts DEF Shape, Listed
    <2>4. \E x : SpotsOf(b) = {x}
      <3>1. CASE b \in SeqBlocks(partial[c])
        BY <1>1, <1>3, <1>4, <1>5, <1>6, <1>7, <1>9, <1>11, <2>2, <2>3, <3>1
      <3>2. CASE b \in SeqBlocks(full[c])
        BY <1>1, <1>2, <1>4, <1>5, <1>6, <1>8, <1>9, <1>11, <2>2, <2>3, <3>2
      <3>3. CASE b \in Hand
        BY <1>1, <1>2, <1>3, <1>4, <1>5, <1>6, <1>9, <1>11, <2>2, <2>3, <3>3
      <3> QED
        BY <2>3, <3>1, <3>2, <3>3
    <2> QED
      BY <2>2, <2>4, FS_Singleton
  <1>13. CASE ~ \E c \in Caches : b \in BlocksOf(c)
    <2>1. /\ InPartial = {} /\ InFull = {} /\ InTodo = {} /\ InBest = {}
      BY <1>2, <1>3, <1>5, <1>6, <1>9, <1>10, <1>11, <1>13
    <2>2. b <= carved <=> b \in SeqBlocks(freeBlocks)
      BY <1>13 DEF Owned
    <2>3. CASE b \in SeqBlocks(freeBlocks)
      <3>1. \E x : SpotsOf(b) = {x}
        BY <1>1, <1>4, <2>1, <2>3
      <3> QED
        BY <2>2, <2>3, <3>1, FS_Singleton
    <2>4. CASE b \notin SeqBlocks(freeBlocks)
      <3>1. SpotsOf(b) = {}
        BY <1>1, <1>4, <2>1, <2>4
      <3> QED
        BY <2>2, <2>4, <3>1, FS_EmptySet
    <2> QED
      BY <2>3, <2>4
  <1> QED
    BY <1>12, <1>13

(* No block is lost and none is in two lists, or in one list twice.        *)
THEOREM BlockOnce == Spec => []EveryBlockOnce
  <1>1. IInv => EveryBlockOnce
    BY OneSpot DEF EveryBlockOnce
  <1> QED
    BY <1>1, Invariance, PTL

-----------------------------------------------------------------------------
(* What s_alloc returns.                                                   *)

(* Nothing that was handed out lies in a block that no cache has.          *)
LEMMA ElsewhereFresh ==
    ASSUME IInv, NEW c, NEW b, NEW p,
           b \notin Blocks \/ ~(b <= carved) \/ (pc = "idle" /\ \A d \in Caches : b \notin BlocksOf(d))
    PROVE  \A h \in held : ~Overlap(h, <<c, b, p>>)
  <1> USE DEF IInv
  <1> SUFFICES ASSUME NEW h \in held PROVE h[2] # b
    BY DEF Overlap
  <1>1. h[1] \in Caches /\ h[2] \in Blocks /\ h[2] <= carved
    BY DEF TypeOK, Entries, HeldOwned
  <1>2. pc = "idle" => h[2] \in BlocksOf(h[1])
    BY DEF HeldOwned
  <1> QED
    BY <1>1, <1>2

(* Nor does the entry that bitset_find_free finds overlap any.             *)
LEMMA TakenFresh ==
    ASSUME IInv, pc = "idle", NEW c \in Caches, partial[c] # << >>,
           NEW b, b = Head(partial[c])
    PROVE  \A h \in held : ~Overlap(h, <<c, b, FoundPlace(c, b)>>)
  <1> USE DEF IInv
  <1> DEFINE p == FoundPlace(c, b)
  <1>1. b \in BlocksOf(c) /\ p \in Places(c) /\ p \notin used[b]
    BY TakenFacts
  <1> HIDE DEF p
  <1> SUFFICES ASSUME NEW h \in held, h[2] = b, h[1] # c \/ h[3] = p PROVE FALSE
    BY DEF Overlap, p
  <1>2. h[1] \in Caches /\ h = <<h[1], h[2], h[3]>> /\ h[2] \in BlocksOf(h[1])
    <2>1. h \in Entries /\ h[2] \in BlocksOf(h[1])
      BY DEF TypeOK, HeldOwned
    <2> QED
      BY <2>1 DEF Entries
  <1>3. h[1] = c
    BY <1>1, <1>2 DEF Owned
  <1>4. <<c, b, p>> \in Current
    BY <1>2, <1>3 DEF Current
  <1>5. p \in used[b]
    BY <1>1, <1>4 DEF BitsSound, BlockSound
  <1> QED
    BY <1>1, <1>5

(* s_alloc returns an entry of the cache that overlaps none in use, and    *)
(* finds a clear bit wherever it looks for one.                            *)
THEOREM FreshAlways == Spec => []FreshEntry
  <1>1. ASSUME IInv PROVE FreshEntry
    <2> SUFFICES ASSUME pc = "idle", NEW c \in Caches
                 PROVE  /\ partial[c] # << >> =>
                               HasClear(c, Head(partial[c])) /\ NextEntry(c) \in Entries
                        /\ \A h \in held : ~Overlap(h, NextEntry(c))
      BY DEF FreshEntry
    <2>1. CASE partial[c] # << >>
      <3>1. NextEntry(c) = <<c, Head(partial[c]), FoundPlace(c, Head(partial[c]))>>
        BY <2>1 DEF NextEntry
      <3> QED
        BY <1>1, <2>1, <3>1, TakenFacts, TakenFresh
    <2>2. CASE partial[c] = << >> /\ freeBlocks # << >>
      <3>1. NextEntry(c) = <<c, Head(freeBlocks), 0>>
        BY <2>2 DEF NextEntry
      <3>2. Head(freeBlocks) \in SeqBlocks(freeBlocks)
        BY <1>1, <2>2, TailBlocks DEF IInv, TypeOK
      <3>3. \A d \in Caches : Head(freeBlocks) \notin BlocksOf(d)
        BY <1>1, <3>2 DEF IInv, Owned
      <3> QED
        BY <1>1, <2>2, <3>1, <3>3, ElsewhereFresh
    <2>3. CASE partial[c] = << >> /\ freeBlocks = << >>
      <3>1. NextEntry(c) = <<c, carved + 1, 0>>
        BY <2>3 DEF NextEntry
      <3>2. ~(carved + 1 <= carved)
        BY <1>1 DEF IInv, TypeOK
      <3> QED
        BY <1>1, <2>3, <3>1, <3>2, ElsewhereFresh
    <2> QED
      BY <2>1, <2>2, <2>3
  <1> QED
    BY <1>1, Invariance, PTL

-----------------------------------------------------------------------------
(* The slab allocator implements the pool of entries: every allocation is  *)
(* a HandOut, every end of a collection a Reclaim.                         *)
LEMMA HandsOut ==
    ASSUME NEW e \in Entries, NEW S, S \subseteq held, held' = S \cup {e},
           \A h \in held : ~Overlap(h, e)
    PROVE  Pool!Next
  <1>1. Overlap(e, e)
    BY DEF Overlap
  <1>2. e \in Entries \ held
    BY <1>1
  <1>3. Pool!HandOut(e)
    BY DEF Pool!HandOut
  <1> QED
    BY <1>2, <1>3 DEF Pool!Next

LEMMA PoolStep ==
    ASSUME IInv, [Next]_vars
    PROVE  [Pool!Next]_held
  <1> USE DEF IInv
  <1>1. ASSUME NEW c \in Caches, NewCache(c) PROVE held' = held
    BY <1>1 DEF NewCache
  <1>2. ASSUME NEW c \in Caches, AllocPartial(c) PROVE Pool!Next
    <2> DEFINE b == Head(partial[c])
               e == <<c, b, FoundPlace(c, b)>>
    <2>1. pc = "idle" /\ partial[c] # << >> /\ held' = held \cup {e}
      BY <1>2 DEF AllocPartial
    <2>2. e \in Entries /\ \A h \in held : ~Overlap(h, e)
      BY <2>1, TakenFacts, TakenFresh
    <2> HIDE DEF b, e
    <2> QED
      BY <2>1, <2>2, HandsOut
  <1>3. ASSUME NEW c \in Caches, AllocFree(c) PROVE Pool!Next
    <2> DEFINE b == Head(freeBlocks)
               e == <<c, b, 0>>
    <2>1. pc = "idle" /\ freeBlocks # << >> /\ held' = held \cup {e}
      BY <1>3 DEF AllocFree, NeedsBlock
    <2>2. b \in Blocks /\ b \in SeqBlocks(freeBlocks)
      BY <2>1, TailBlocks DEF TypeOK
    <2>3. \A d \in Caches : b \notin BlocksOf(d)
      BY <2>2 DEF Owned
    <2>4. 0 \in Places(c)
      BY GeometryAssumption DEF Places
    <2> HIDE DEF b
    <2>5. e \in Entries /\ \A h \in held : ~Overlap(h, e)
      BY <2>1, <2>2, <2>3, <2>4, ElsewhereFresh DEF Entries
    <2> HIDE DEF e
    <2> QED
      BY <2>1, <2>5, HandsOut
  <1>4. ASSUME NEW c \in Caches, Carve(c), NEW S, S \subseteq held,
               held' = S \cup {<<c, carved + 1, 0>>}
        PROVE  Pool!Next
    <2> DEFINE b == carved + 1
               e == <<c, b, 0>>
    <2>1. b \in Blocks /\ ~(b <= carved)
      BY <1>4, BoundsAssumption DEF Carve, TypeOK, Blocks
    <2>2. 0 \in Places(c)
      BY GeometryAssumption DEF Places
    <2> HIDE DEF b
    <2>3. e \in Entries /\ \A h \in held : ~Overlap(h, e)
      BY <2>1, <2>2, ElsewhereFresh DEF Entries
    <2>4. held' = S \cup {e}
      BY <1>4 DEF b
    <2> HIDE DEF e
    <2> QED
      BY <1>4, <2>3, <2>4, HandsOut
  <1>5. ASSUME NEW c \in Caches, AllocCarve(c) PROVE Pool!Next
    BY <1>4, <1>5 DEF AllocCarve
  <1>6. ASSUME NEW c \in Caches, AllocCollects(c) PROVE held' = held
    BY <1>6 DEF AllocCollects, ClearUsedBits
  <1>7. CASE PerformGC
    BY <1>7 DEF PerformGC, ClearUsedBits
  <1>8. ASSUME NEW e \in held, Mark(e) PROVE held' = held
    BY <1>8 DEF Mark
  <1>9. CASE StartSweep \/ SweepBlock \/ SweepCache
    BY <1>9 DEF StartSweep, SweepBlock, SweepCache, sweepUnchanged
  <1>10. CASE EndGC
    BY <1>10 DEF EndGC, TypeOK, Pool!Next, Pool!Reclaim
  <1>11. CASE EndGCThenCarve
    <2>1. /\ request \in Caches /\ Carve(request) /\ marked \subseteq held
          /\ held' = marked \cup {<<request, carved + 1, 0>>}
      BY <1>11 DEF EndGCThenCarve, TypeOK
    <2>2. PICK c \in Caches : c = request
      BY <2>1
    <2> QED
      BY <1>4, <2>1, <2>2
  <1>12. CASE UNCHANGED vars
    BY <1>12 DEF vars
  <1> QED
    BY <1>1, <1>2, <1>3, <1>5, <1>6, <1>7, <1>8, <1>9, <1>10, <1>11, <1>12 DEF Next, Sweeping

(* What s_alloc promises, through any mixture of caches and collections.   *)
THEOREM Refinement == Spec => ImplementsEntryPool
  <1>1. Init => Pool!Init
    BY DEF Init, Pool!Init
  <1>2. IInv /\ [Next]_vars => [Pool!Next]_held
    BY PoolStep
  <1> QED
    BY <1>1, <1>2, Invariance, PTL DEF Spec, Pool!Spec, ImplementsEntryPool

=============================================================================
