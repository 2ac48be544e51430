------------------------- MODULE Md5MessagesProofs --------------------------
(***************************************************************************)
(* Proofs about the messages of Md5Messages: however a message is cut, its *)
(* state and its digest are those of the message in one piece, whatever    *)
(* the compression of a block does.                                        *)
(***************************************************************************)
EXTENDS Md5Messages, SequenceTheorems, WellFoundedInduction, TLAPS

-----------------------------------------------------------------------------
(* Induction, with a set for the property.                                 *)

LEMMA SetInduction ==
    ASSUME NEW T, 0 \in T, \A n \in Nat : n \in T => n + 1 \in T
    PROVE  Nat \subseteq T
  <1> DEFINE C == {n \in Nat : n \notin T}
  <1> SUFFICES ASSUME C # {} PROVE FALSE
    OBVIOUS
  <1>1. C \subseteq Nat
    OBVIOUS
  <1>2. PICK m \in C : \A y \in C : ~(<<y, m>> \in OpToRel(<, Nat))
    <2> HIDE DEF C
    <2> QED
      BY <1>1, NatLessThanWellFounded, WFMin
  <1>3. \A y \in C : ~(y < m)
    BY <1>2 DEF OpToRel
  <1>4. m \in Nat /\ m # 0 /\ m \notin T
    OBVIOUS
  <1>5. m - 1 \in Nat /\ m - 1 < m /\ (m - 1) + 1 = m
    BY <1>4
  <1>6. m - 1 \notin C
    BY <1>3, <1>5
  <1>7. m - 1 \in T
    BY <1>5, <1>6
  <1> QED
    BY <1>4, <1>5, <1>7

-----------------------------------------------------------------------------
(* The registers after each block.                                         *)

(* g holds the registers after up to n blocks.                             *)
Upto(g, n, abcd, data, p) ==
    /\ g[0] = abcd
    /\ \A k \in 0..(n - 1) :
          g[k + 1] = Process(g[k], BlockAt(data, p + BlockLen * k))

LEMMA UptoExists ==
    ASSUME NEW abcd, NEW data, NEW p
    PROVE  \A n \in Nat : \E g : Upto(g, n, abcd, data, p)
  <1> DEFINE T == {n \in Nat : \E g : Upto(g, n, abcd, data, p)}
  <1>1. 0 \in T
    <2>1. Upto([k \in {0} |-> abcd], 0, abcd, data, p)
      BY DEF Upto
    <2> QED
      BY <2>1
  <1>2. ASSUME NEW n \in Nat, n \in T PROVE n + 1 \in T
    <2>1. PICK g : Upto(g, n, abcd, data, p)
      BY <1>2
    <2> DEFINE h == [k \in 0..(n + 1) |->
                       IF k = n + 1 THEN Process(g[n], BlockAt(data, p + BlockLen * n))
                       ELSE g[k]]
    <2>2. h[0] = abcd
      BY <2>1 DEF Upto
    <2>3. ASSUME NEW k \in 0..n
          PROVE  h[k + 1] = Process(h[k], BlockAt(data, p + BlockLen * k))
      <3>1. h[k] = g[k]
        OBVIOUS
      <3>2. CASE k = n
        BY <3>1, <3>2
      <3>3. CASE k # n
        <4>1. k \in 0..(n - 1) /\ k + 1 \in 0..(n + 1) /\ k + 1 # n + 1
          BY <3>3
        <4>2. h[k + 1] = g[k + 1]
          BY <4>1
        <4> QED
          BY <2>1, <3>1, <4>1, <4>2 DEF Upto
      <3> QED
        BY <3>2, <3>3
    <2> HIDE DEF h
    <2>4. Upto(h, n + 1, abcd, data, p)
      BY <2>2, <2>3 DEF Upto
    <2> QED
      BY <2>4
  <1> HIDE DEF T
  <1>3. Nat \subseteq T
    BY <1>1, <1>2, SetInduction
  <1> QED
    BY <1>3 DEF T

LEMMA UptoUnique ==
    ASSUME NEW abcd, NEW data, NEW p, NEW n \in Nat, NEW m \in Nat, n <= m,
           NEW g, Upto(g, n, abcd, data, p), NEW h, Upto(h, m, abcd, data, p)
    PROVE  \A k \in 0..n : g[k] = h[k]
  <1> DEFINE T == {k \in Nat : k <= n => g[k] = h[k]}
  <1>1. 0 \in T
    BY DEF Upto
  <1>2. ASSUME NEW k \in Nat, k \in T PROVE k + 1 \in T
    <2> SUFFICES ASSUME k + 1 <= n PROVE g[k + 1] = h[k + 1]
      OBVIOUS
    <2>1. k \in 0..(n - 1) /\ k \in 0..(m - 1) /\ k <= n
      OBVIOUS
    <2>2. g[k] = h[k]
      BY <1>2, <2>1
    <2> QED
      BY <2>1, <2>2 DEF Upto
  <1> HIDE DEF T
  <1>3. Nat \subseteq T
    BY <1>1, <1>2, SetInduction
  <1> QED
    BY <1>3 DEF T

(* The recursion of Compressed has a solution, so it is one.               *)
LEMMA CompressedSteps ==
    ASSUME NEW abcd, NEW data, NEW p
    PROVE  /\ Compressed(abcd, data, p)[0] = abcd
           /\ \A k \in Nat :
                 Compressed(abcd, data, p)[k + 1]
                   = Process(Compressed(abcd, data, p)[k], BlockAt(data, p + BlockLen * k))
  <1> DEFINE G(n) == CHOOSE g : Upto(g, n, abcd, data, p)
             f == [n \in Nat |-> G(n)[n]]
             Step(g) == [k \in Nat |->
                           IF k = 0 THEN abcd
                           ELSE Process(g[k - 1], BlockAt(data, p + BlockLen * (k - 1)))]
             w == Compressed(abcd, data, p)
  <1>1. ASSUME NEW n \in Nat PROVE Upto(G(n), n, abcd, data, p)
    BY UptoExists, Zenon
  <1> HIDE DEF G
  <1>2. ASSUME NEW k \in Nat PROVE f[k] = Step(f)[k]
    <2>1. CASE k = 0
      <3>1. f[0] = G(0)[0] /\ Step(f)[0] = abcd
        OBVIOUS
      <3> QED
        BY <1>1, <2>1, <3>1 DEF Upto
    <2>2. CASE k # 0
      <3>1. k - 1 \in Nat /\ k - 1 <= k /\ k - 1 \in 0..(k - 1) /\ (k - 1) + 1 = k
        BY <2>2
      <3>2. Upto(G(k - 1), k - 1, abcd, data, p) /\ Upto(G(k), k, abcd, data, p)
        BY <1>1, <3>1
      <3>3. G(k - 1)[k - 1] = G(k)[k - 1]
        BY <3>1, <3>2, UptoUnique
      <3>4. G(k)[k] = Process(G(k)[k - 1], BlockAt(data, p + BlockLen * (k - 1)))
        BY <3>1, <3>2 DEF Upto
      <3>5. f[k] = G(k)[k] /\ f[k - 1] = G(k - 1)[k - 1]
        BY <3>1
      <3>6. Step(f)[k] = Process(f[k - 1], BlockAt(data, p + BlockLen * (k - 1)))
        BY <2>2
      <3> QED
        BY <3>3, <3>4, <3>5, <3>6
    <2> QED
      BY <2>1, <2>2
  <1>3. f = Step(f)
    BY <1>2
  <1>4. w = Step(w)
    <2>1. w = CHOOSE g : g = Step(g)
      BY DEF Compressed
    <2> HIDE DEF w, Step, f
    <2> QED
      BY <1>3, <2>1
  <1> HIDE DEF w
  <1>5. w[0] = abcd
    BY <1>4
  <1>6. ASSUME NEW k \in Nat
        PROVE  w[k + 1] = Process(w[k], BlockAt(data, p + BlockLen * k))
    <2>1. k + 1 \in Nat /\ k + 1 # 0 /\ (k + 1) - 1 = k
      OBVIOUS
    <2>2. Step(w)[k + 1] = Process(w[(k + 1) - 1], BlockAt(data, p + BlockLen * ((k + 1) - 1)))
      BY <2>1
    <2> HIDE DEF Step
    <2> QED
      BY <1>4, <2>1, <2>2
  <1> QED
    BY <1>5, <1>6 DEF w

LEMMA CompressedStart ==
    ASSUME NEW abcd, NEW data, NEW p
    PROVE  Compressed(abcd, data, p)[0] = abcd
  BY CompressedSteps, Zenon

(* n blocks of d from p on are the blocks of e from block j on.            *)
Agree(d, p, e, j, n) ==
    \A k \in 0..(n - 1) : BlockAt(d, p + BlockLen * k) = BlockAt(e, 0 + BlockLen * (j + k))

(* The registers n blocks after block j.                                   *)
After(abcd, data, j, n) == Compressed(abcd, data, 0)[j + n]

(* From equal registers the same blocks lead to equal registers.           *)
LEMMA SameBlocks ==
    ASSUME NEW a, NEW d, NEW p, NEW b, NEW e, NEW j \in Nat, NEW n \in Nat,
           Agree(d, p, e, j, n), a = After(b, e, j, 0)
    PROVE  Compressed(a, d, p)[n] = After(b, e, j, n)
  <1> DEFINE v == Compressed(a, d, p)
             w == Compressed(b, e, 0)
             T == {k \in Nat : k <= n => v[k] = w[j + k]}
  <1>1. /\ \A k \in Nat : v[k + 1] = Process(v[k], BlockAt(d, p + BlockLen * k))
        /\ \A k \in Nat : w[k + 1] = Process(w[k], BlockAt(e, 0 + BlockLen * k))
    BY CompressedSteps
  <1>2. v[0] = a
    BY CompressedStart
  <1>3. a = w[j]
    <2>1. j + 0 = j
      OBVIOUS
    <2> QED
      BY <2>1 DEF After
  <1> HIDE DEF v, w
  <1>4. 0 \in T
    BY <1>2, <1>3
  <1>5. ASSUME NEW k \in Nat, k \in T PROVE k + 1 \in T
    <2> SUFFICES ASSUME k + 1 <= n PROVE v[k + 1] = w[j + (k + 1)]
      OBVIOUS
    <2>1. k \in 0..(n - 1) /\ k <= n /\ j + k \in Nat
      OBVIOUS
    <2>2. v[k] = w[j + k]
      BY <1>5, <2>1
    <2>3. BlockAt(d, p + BlockLen * k) = BlockAt(e, 0 + BlockLen * (j + k))
      BY <2>1 DEF Agree
    <2>4. v[k + 1] = w[(j + k) + 1]
      BY <1>1, <2>1, <2>2, <2>3
    <2>5. j + (k + 1) = (j + k) + 1
      OBVIOUS
    <2> QED
      BY <2>4, <2>5
  <1> HIDE DEF T
  <1>6. Nat \subseteq T
    BY <1>4, <1>5, SetInduction
  <1> QED
    BY <1>6 DEF T, v, w, After

-----------------------------------------------------------------------------
(* Division.                                                               *)

LEMMA Multiples ==
    ASSUME NEW w \in Nat, NEW k \in Nat
    PROVE  w * k \in Nat /\ (k >= 1 => w * k >= w)
  <1>1. w * k \in Nat
    OBVIOUS
  <1>2. ASSUME k >= 1 PROVE w * k >= w
    <2>1. k - 1 \in Nat
      BY <1>2
    <2>2. w * (k - 1) \in Nat
      BY <2>1
    <2>3. w * (k - 1) = w * k - w
      OBVIOUS
    <2> QED
      BY <2>2, <2>3
  <1> QED
    BY <1>1, <1>2

LEMMA DivisionFacts ==
    ASSUME NEW x \in Nat, NEW w \in Nat, w > 0
    PROVE  x \div w \in Nat /\ x % w \in Nat /\ x % w < w /\ x = w * (x \div w) + (x % w)
  OBVIOUS

LEMMA NoLess ==
    ASSUME NEW w \in Nat, NEW q \in Nat, NEW r \in Nat, r < w,
           NEW d \in Nat, NEW m \in Nat, w * q + r = w * d + m
    PROVE  ~(q < d)
  <1> SUFFICES ASSUME q < d PROVE FALSE
    OBVIOUS
  <1> DEFINE k == d - q
  <1>1. k \in Nat /\ k >= 1 /\ d = q + k
    OBVIOUS
  <1>2. w * k >= w /\ w * k \in Nat
    BY <1>1, Multiples
  <1>3. w * d = w * q + w * k
    BY <1>1
  <1> QED
    BY <1>2, <1>3

(* Quotient and rest are the only ones.                                    *)
LEMMA DivisionUnique ==
    ASSUME NEW w \in Nat, w > 0, NEW q \in Nat, NEW r \in Nat, r < w
    PROVE  (w * q + r) \div w = q /\ (w * q + r) % w = r
  <1> DEFINE x == w * q + r
             d == x \div w
             m == x % w
  <1>1. x \in Nat
    BY Multiples
  <1>2. d \in Nat /\ m \in Nat /\ m < w /\ w * q + r = w * d + m
    <2> HIDE DEF x
    <2>1. d \in Nat /\ m \in Nat /\ m < w /\ x = w * d + m
      BY <1>1, DivisionFacts
    <2> QED
      BY <2>1 DEF x
  <1> HIDE DEF d, m
  <1>3. ~(q < d) /\ ~(d < q)
    BY <1>2, NoLess
  <1>4. q = d
    BY <1>2, <1>3
  <1>5. r = m
    BY <1>2, <1>4, Multiples
  <1> QED
    BY <1>4, <1>5 DEF d, m

(* A word may be cut to its width before something is added to it.         *)
LEMMA CutEarly ==
    ASSUME NEW w \in Nat, w > 0, NEW a \in Nat, NEW b \in Nat
    PROVE  ((a % w) + b) % w = (a + b) % w
  <1> DEFINE d == a \div w
             m == a % w
             e == (m + b) \div w
             t == (m + b) % w
  <1>1. d \in Nat /\ m \in Nat /\ a = w * d + m
    BY DivisionFacts
  <1> HIDE DEF d, m
  <1>2. e \in Nat /\ t \in Nat /\ t < w /\ m + b = w * e + t
    <2>1. m + b \in Nat
      BY <1>1
    <2> QED
      BY <2>1, DivisionFacts
  <1> HIDE DEF e, t
  <1>3. a + b = w * (d + e) + t
    <2>1. w * (d + e) = w * d + w * e
      BY <1>1, <1>2
    <2>2. w * d \in Nat /\ w * e \in Nat
      BY <1>1, <1>2, Multiples
    <2> QED
      BY <1>1, <1>2, <2>1, <2>2
  <1>4. d + e \in Nat
    BY <1>1, <1>2
  <1>5. (a + b) % w = t
    BY <1>2, <1>3, <1>4, DivisionUnique
  <1> QED
    BY <1>5 DEF t, m

-----------------------------------------------------------------------------
(* The two counters.                                                       *)

(* Each md5_word_t counts whole buffers.                                   *)
LEMMA WordSize ==
    /\ CountLimit \in Nat /\ CountLimit > 0
    /\ \E u \in Nat : u > 0 /\ CountLimit = 512 * u
  <1>1. CountLimit \in Nat /\ CountLimit > 0 /\ CountLimit % 512 = 0
    BY CountAssumption DEF BlockLen
  <1>2. CountLimit \div 512 \in Nat /\ CountLimit = 512 * (CountLimit \div 512)
    BY <1>1
  <1>3. CountLimit \div 512 > 0
    BY <1>1, <1>2
  <1> QED
    BY <1>1, <1>2, <1>3

(* The sum of the two words, with its carry, is the number of bits.        *)
LEMMA CountAdds ==
    ASSUME NEW n \in Nat, NEW k \in Nat
    PROVE  Counted(BitsOf(n), k) = BitsOf(n + k)
  <1> DEFINE w  == CountLimit
             q1 == (8 * n) \div w
             r1 == (8 * n) % w
             q2 == (8 * k) \div w
             r2 == (8 * k) % w
             low == (r1 + r2) % w
             carry == IF low < r2 THEN 1 ELSE 0
  <1>1. PICK u \in Nat : u > 0 /\ w = 512 * u
    BY WordSize
  <1>2. w \in Nat /\ w > 0
    BY WordSize
  <1> HIDE DEF w
  <1>3. q1 \in Nat /\ r1 \in Nat /\ r1 < w /\ 8 * n = w * q1 + r1
    <2>1. 8 * n \in Nat
      OBVIOUS
    <2> QED
      BY <1>2, <2>1, DivisionFacts
  <1>4. q2 \in Nat /\ r2 \in Nat /\ r2 < w /\ 8 * k = w * q2 + r2
    <2>1. 8 * k \in Nat
      OBVIOUS
    <2> QED
      BY <1>2, <2>1, DivisionFacts
  <1>5. k \div (w \div 8) = q2
    <2> HIDE DEF q2, r2
    <2> DEFINE v == 64 * u
               z == v * q2
    <2>1. v \in Nat /\ v > 0 /\ w = 8 * v /\ w \div 8 = v
      BY <1>1
    <2> HIDE DEF v
    <2>2. w * q2 = 8 * z
      BY <1>4, <2>1
    <2>3. z \in Nat
      BY <1>4, <2>1, Multiples
    <2>4. k - z \in Nat /\ k - z < v
      BY <1>4, <2>1, <2>2, <2>3
    <2>5. k = v * q2 + (k - z)
      BY <2>3
    <2> HIDE DEF z
    <2>6. (v * q2 + (k - z)) \div v = q2
      BY <1>4, <2>1, <2>4, DivisionUnique
    <2> QED
      BY <2>1, <2>5, <2>6
  <1> HIDE DEF q1, r1, q2, r2
  <1>6. /\ low \in Nat /\ low < w /\ carry \in {0, 1}
        /\ r1 + r2 = w * carry + low
    <2>1. CASE r1 + r2 < w
      <3>1. low = r1 + r2
        BY <1>2, <1>3, <1>4, <2>1
      <3>2. carry = 0
        BY <1>3, <1>4, <3>1
      <3> QED
        BY <1>2, <1>3, <1>4, <2>1, <3>1, <3>2
    <2>2. CASE r1 + r2 >= w
      <3> DEFINE l == r1 + r2 - w
      <3>1. l \in Nat /\ l < w /\ l < r2 /\ r1 + r2 = w * 1 + l
        BY <1>2, <1>3, <1>4, <2>2
      <3> HIDE DEF l
      <3>2. low = l
        BY <1>2, <3>1, DivisionUnique
      <3>3. carry = 1
        BY <3>1, <3>2
      <3> QED
        BY <3>1, <3>2, <3>3
    <2> QED
      BY <1>2, <1>3, <1>4, <2>1, <2>2
  <1> HIDE DEF low, carry
  <1>7. 8 * (n + k) = w * (q1 + q2 + carry) + low
    <2>1. w * (q1 + q2 + carry) = w * q1 + w * q2 + w * carry
      BY <1>2, <1>3, <1>4, <1>6
    <2>2. w * q1 \in Nat /\ w * q2 \in Nat /\ w * carry \in Nat
      BY <1>2, <1>3, <1>4, <1>6, Multiples
    <2> QED
      BY <1>3, <1>4, <1>6, <2>1, <2>2
  <1>8. q1 + q2 + carry \in Nat
    BY <1>3, <1>4, <1>6
  <1>9. (8 * (n + k)) % w = low /\ (8 * (n + k)) \div w = q1 + q2 + carry
    BY <1>2, <1>6, <1>7, <1>8, DivisionUnique
  <1>10. ((q1 % w) + q2 + carry) % w = (q1 + q2 + carry) % w
    <2>1. q2 + carry \in Nat
      BY <1>4, <1>6
    <2>2. ((q1 % w) + (q2 + carry)) % w = (q1 + (q2 + carry)) % w
      BY <1>2, <1>3, <2>1, CutEarly
    <2>3. q1 % w \in Nat
      BY <1>2, <1>3
    <2>4. /\ (q1 % w) + (q2 + carry) = (q1 % w) + q2 + carry
          /\ q1 + (q2 + carry) = q1 + q2 + carry
      BY <1>3, <1>4, <1>6, <2>3
    <2> QED
      BY <2>2, <2>4
  <1>11. BitsOf(n)[1] = r1 /\ BitsOf(n)[2] = q1 % w
    BY DEF BitsOf, r1, q1, w
  <1>12. Counted(BitsOf(n), k) = << low, ((q1 % w) + q2 + carry) % w >>
    BY <1>5, <1>11 DEF Counted, low, carry, r2, w
  <1> QED
    BY <1>9, <1>10, <1>12 DEF BitsOf, w

(* The low word tells how many bytes wait in the buffer.                   *)
LEMMA LowCount ==
    ASSUME NEW n \in Nat
    PROVE  \E z \in Nat : 64 * z <= n /\ BitsOf(n)[1] \div 8 = n - 64 * z
  <1> DEFINE w == CountLimit
             q == (8 * n) \div w
             r == (8 * n) % w
  <1>1. PICK u \in Nat : u > 0 /\ w = 512 * u
    BY WordSize
  <1>2. q \in Nat /\ r \in Nat /\ 8 * n = w * q + r
    <2>1. w \in Nat /\ w > 0 /\ 8 * n \in Nat
      BY WordSize
    <2> QED
      BY <2>1, DivisionFacts
  <1>3. BitsOf(n)[1] = r
    BY DEF BitsOf
  <1> HIDE DEF w, q, r
  <1> DEFINE z == u * q
  <1>4. w * q = 512 * z
    BY <1>1, <1>2
  <1>5. z \in Nat
    BY <1>2, Multiples
  <1> HIDE DEF z
  <1>6. r = 8 * (n - 64 * z) /\ n - 64 * z >= 0
    BY <1>2, <1>4, <1>5
  <1>7. r \div 8 = n - 64 * z
    BY <1>5, <1>6
  <1> QED
    BY <1>3, <1>5, <1>6, <1>7

LEMMA OffsetOf ==
    ASSUME NEW n \in Nat
    PROVE  Offset(BitsOf(n)) = n % 64
  <1>1. PICK z \in Nat : 64 * z <= n /\ BitsOf(n)[1] \div 8 = n - 64 * z
    BY LowCount
  <1>2. (n - 64 * z) % 64 = n % 64
    BY <1>1
  <1> QED
    BY <1>1, <1>2 DEF Offset, BlockLen

(* The padding ends 8 bytes before the end of a block.                     *)
LEMMA PadLengthOf ==
    ASSUME NEW n \in Nat
    PROVE  /\ PadLength(BitsOf(n)) \in 1..64
           /\ (n + PadLength(BitsOf(n))) % 64 = 56
  <1>1. PICK z \in Nat : 64 * z <= n /\ BitsOf(n)[1] \div 8 = n - 64 * z
    BY LowCount
  <1> DEFINE y == n - 64 * z
             l == ((55 - y) % 64) + 1
  <1>2. PadLength(BitsOf(n)) = l
    BY <1>1 DEF PadLength, BlockLen
  <1>3. y \in Nat /\ n = y + 64 * z
    BY <1>1
  <1> HIDE DEF y
  <1>4. l \in 1..64 /\ (y + l) % 64 = 56
    BY <1>3
  <1> HIDE DEF l
  <1>5. (n + l) % 64 = 56
    BY <1>3, <1>4
  <1> QED
    BY <1>2, <1>4, <1>5

-----------------------------------------------------------------------------
(* Appending.                                                              *)

(* The state s is that of the message m.                                   *)
Represents(s, m) ==
    /\ s.count = BitsOf(Len(m))
    /\ s.abcd = Registers(m)
    /\ \A i \in 1..(Len(m) % 64) : s.buf[i] = m[64 * (Len(m) \div 64) + i]

LEMMA BlockFacts ==
    ASSUME NEW S, NEW d \in Seq(S), NEW p \in Nat, p + BlockLen <= Len(d)
    PROVE  /\ BlockAt(d, p) \in Seq(S) /\ Len(BlockAt(d, p)) = BlockLen
           /\ \A i \in 1..BlockLen : BlockAt(d, p)[i] = d[p + i]
  <1>1. BlockLen \in Nat /\ BlockLen >= 1
    BY DEF BlockLen
  <1>2. \A i \in (p + 1)..(p + BlockLen) : d[i] \in S
    <2>1. \A i \in (p + 1)..(p + BlockLen) : i \in 1..Len(d)
      BY <1>1
    <2> QED
      BY <2>1, ElementOfSeq
  <1>3. /\ p + 1 \in Int /\ p + BlockLen \in Int /\ p + 1 <= p + BlockLen
        /\ (p + BlockLen) - (p + 1) + 1 = BlockLen
    BY <1>1
  <1> DEFINE b == SubSeq(d, p + 1, p + BlockLen)
  <1>4. /\ b \in Seq(S)
        /\ Len(b) = IF p + 1 <= p + BlockLen THEN (p + BlockLen) - (p + 1) + 1 ELSE 0
        /\ \A i \in 1..((p + BlockLen) - (p + 1) + 1) : b[i] = d[(p + 1) + i - 1]
    BY <1>2, <1>3, SubSeqProperties
  <1>5. b = BlockAt(d, p)
    BY DEF BlockAt
  <1> HIDE DEF b
  <1>6. ASSUME NEW i \in 1..BlockLen PROVE b[i] = d[p + i]
    <2>1. i \in 1..((p + BlockLen) - (p + 1) + 1) /\ (p + 1) + i - 1 = p + i
      BY <1>3
    <2>2. b[i] = d[(p + 1) + i - 1]
      BY <1>4, <2>1
    <2> QED
      BY <2>1, <2>2
  <1> QED
    BY <1>3, <1>4, <1>5, <1>6

LEMMA BlockIs ==
    ASSUME NEW S, NEW d \in Seq(S), NEW p \in Nat, p + BlockLen <= Len(d),
           NEW b \in Seq(S), Len(b) = BlockLen, \A i \in 1..BlockLen : b[i] = d[p + i]
    PROVE  BlockAt(d, p) = b
  <1> DEFINE c == BlockAt(d, p)
  <1>1. c \in Seq(S) /\ Len(c) = BlockLen
    BY BlockFacts
  <1>2. ASSUME NEW i \in 1..BlockLen PROVE c[i] = d[p + i]
    BY BlockFacts
  <1> HIDE DEF c
  <1>3. ASSUME NEW i \in 1..Len(c) PROVE c[i] = b[i]
    BY <1>1, <1>2
  <1>4. c = b
    BY <1>1, <1>3, SeqEqual
  <1> QED
    BY <1>4 DEF c

(* What is appended does not change the blocks that were there.            *)
LEMMA RegistersKept ==
    ASSUME NEW S, NEW m \in Seq(S), NEW d \in Seq(S)
    PROVE  Compressed(Chaining, m \o d, 0)[Len(m) \div 64] = Registers(m)
  <1> DEFINE n == Len(m) \div 64
  <1>1. Len(m) \in Nat /\ n \in Nat /\ 64 * n <= Len(m)
    OBVIOUS
  <1>2. /\ m \o d \in Seq(S) /\ Len(m \o d) >= Len(m)
        /\ \A i \in 1..Len(m) : (m \o d)[i] = m[i]
    <2>1. Len(d) \in Nat
      OBVIOUS
    <2> QED
      BY <1>1, <2>1, ConcatProperties
  <1>3. Agree(m, 0, m \o d, 0, n)
    <2> SUFFICES ASSUME NEW k \in 0..(n - 1)
                 PROVE  BlockAt(m, 0 + BlockLen * k) = BlockAt(m \o d, 0 + BlockLen * (0 + k))
      BY DEF Agree
    <2> DEFINE p == 64 * k
    <2>1. /\ 0 + BlockLen * k = p /\ 0 + BlockLen * (0 + k) = p
          /\ p \in Nat /\ p + BlockLen <= Len(m) /\ BlockLen \in Nat
      BY <1>1 DEF BlockLen
    <2> HIDE DEF p, n
    <2>2. /\ BlockAt(m, p) \in Seq(S) /\ Len(BlockAt(m, p)) = BlockLen
          /\ \A i \in 1..BlockLen : BlockAt(m, p)[i] = m[p + i]
      BY <2>1, BlockFacts
    <2>3. \A i \in 1..BlockLen : BlockAt(m, p)[i] = (m \o d)[p + i]
      <3>1. \A i \in 1..BlockLen : p + i \in 1..Len(m)
        BY <1>1, <2>1
      <3> QED
        BY <1>2, <2>2, <3>1
    <2>4. p + BlockLen <= Len(m \o d)
      <3>1. Len(m \o d) \in Nat
        BY <1>2
      <3> QED
        BY <1>1, <1>2, <2>1, <3>1
    <2>5. BlockAt(m \o d, p) = BlockAt(m, p)
      BY <1>2, <2>1, <2>2, <2>3, <2>4, BlockIs
    <2> QED
      BY <2>1, <2>5
  <1>4. Chaining = After(Chaining, m \o d, 0, 0)
    <2>1. 0 + 0 = 0
      OBVIOUS
    <2> QED
      BY <2>1, CompressedStart DEF After
  <1>5. n \in Nat /\ n = 0 + n
    BY <1>1
  <1> HIDE DEF n
  <1>6. Compressed(Chaining, m, 0)[n] = After(Chaining, m \o d, 0, n)
    BY <1>3, <1>4, <1>5, SameBlocks
  <1> QED
    BY <1>5, <1>6 DEF Registers, BlockLen, After, n

(* md5_append when the piece does not fill the buffer up.                  *)
LEMMA AppendPartial ==
    ASSUME NEW S, NEW m \in Seq(S), NEW d \in Seq(S), d # << >>,
           NEW s, Represents(s, m),
           Len(m) % 64 # 0, (Len(m) % 64) + Len(d) < 64
    PROVE  Represents(md5_append(s, d), m \o d)
  <1> DEFINE o == Len(m) % 64
             q == Len(m) \div 64
             n == Len(d)
             filled == CopiedTo(s.buf, o, SubSeq(d, 1, n))
             t == md5_append(s, d)
  <1>1. /\ Len(m) \in Nat /\ o \in Nat /\ q \in Nat /\ Len(m) = 64 * q + o
        /\ n \in Nat /\ n >= 1 /\ o # 0 /\ o + n < 64
    OBVIOUS
  <1>2. /\ m \o d \in Seq(S) /\ Len(m \o d) = Len(m) + n
        /\ \A i \in 1..(Len(m) + n) : (m \o d)[i] = IF i <= Len(m) THEN m[i] ELSE d[i - Len(m)]
    BY ConcatProperties
  <1>3. Offset(s.count) = o
    BY <1>1, OffsetOf DEF Represents
  <1>4. SubSeq(d, 1, n) = d
    BY SubSeqFull
  <1>5. t = [count |-> Counted(s.count, n), abcd |-> s.abcd, buf |-> filled]
    <2> HIDE DEF o, n
    <2> DEFINE copy == IF o = 0 THEN 0 ELSE IF o + n > 64 THEN 64 - o ELSE n
    <2>1. copy = n /\ (o # 0 /\ o + copy < 64)
      BY <1>1
    <2> HIDE DEF copy
    <2> QED
      BY <1>3, <2>1 DEF md5_append, BlockLen, n, copy
  <1> HIDE DEF o, q, n, t
  <1>6. t.count = BitsOf(Len(m \o d))
    <2>1. Counted(BitsOf(Len(m)), n) = BitsOf(Len(m) + n)
      BY <1>1, CountAdds
    <2> QED
      BY <1>2, <1>5, <2>1 DEF Represents
  <1>7. /\ Len(m \o d) \div 64 = q
        /\ Len(m \o d) % 64 = o + n
    <2>1. Len(m \o d) = 64 * q + (o + n) /\ o + n \in Nat /\ o + n < 64
      BY <1>1, <1>2
    <2> QED
      BY <1>1, <2>1
  <1>8. t.abcd = Registers(m \o d)
    <2>1. Compressed(Chaining, m \o d, 0)[q] = Registers(m)
      BY RegistersKept DEF q
    <2> QED
      BY <1>5, <1>7, <2>1 DEF Registers, BlockLen, Represents
  <1>9. ASSUME NEW i \in 1..(o + n) PROVE t.buf[i] = (m \o d)[64 * q + i]
    <2>1. filled[i] = IF i > o /\ i <= o + n THEN d[i - o] ELSE s.buf[i]
      <3>1. i \in 1..64
        BY <1>1
      <3> QED
        BY <1>4, <3>1 DEF CopiedTo, BlockLen, n
    <2>2. 64 * q + i \in 1..(Len(m) + n)
      BY <1>1
    <2>3. CASE i <= o
      <3>1. s.buf[i] = m[64 * q + i]
        BY <1>1, <2>3 DEF Represents, o, q
      <3>2. 64 * q + i <= Len(m)
        BY <1>1, <2>3
      <3> QED
        BY <1>1, <1>2, <1>5, <2>1, <2>2, <2>3, <3>1, <3>2
    <2>4. CASE i > o
      <3>1. (64 * q + i) - Len(m) = i - o /\ ~(64 * q + i <= Len(m)) /\ i <= o + n
        BY <1>1, <2>4
      <3> QED
        BY <1>2, <1>5, <2>1, <2>2, <2>4, <3>1
    <2>5. i <= o \/ i > o
      BY <1>1
    <2> QED
      BY <2>3, <2>4, <2>5
  <1> QED
    BY <1>6, <1>7, <1>8, <1>9 DEF Represents, t

(* md5_append when the piece fills the buffer up, or finds it empty.       *)
LEMMA AppendFull ==
    ASSUME NEW S, NEW m \in Seq(S), NEW d \in Seq(S), d # << >>,
           NEW s, Represents(s, m),
           Len(m) % 64 = 0 \/ (Len(m) % 64) + Len(d) >= 64
    PROVE  Represents(md5_append(s, d), m \o d)
  <1> DEFINE o == Len(m) % 64
             q == Len(m) \div 64
             n == Len(d)
             c == IF o = 0 THEN 0 ELSE 64 - o
             head == SubSeq(d, 1, c)
             filled == CopiedTo(s.buf, o, head)
             first == IF o # 0 THEN Process(s.abcd, filled) ELSE s.abcd
             left == n - c
             rest == SubSeq(d, n - (left % 64) + 1, n)
             t == md5_append(s, d)
             e == m \o d
             j == IF o = 0 THEN q ELSE q + 1
             l == left \div 64
             r == left % 64
  <1>1. /\ Len(m) \in Nat /\ o \in Nat /\ q \in Nat /\ Len(m) = 64 * q + o /\ o < 64
        /\ n \in Nat /\ n >= 1 /\ (o = 0 \/ o + n >= 64)
    OBVIOUS
  <1>2. /\ e \in Seq(S) /\ Len(e) = Len(m) + n
        /\ \A i \in 1..(Len(m) + n) : e[i] = IF i <= Len(m) THEN m[i] ELSE d[i - Len(m)]
    BY ConcatProperties
  <1>3. Offset(s.count) = o
    BY <1>1, OffsetOf DEF Represents
  <1> HIDE DEF o, q, n
  <1>4. /\ c \in Nat /\ c <= n /\ left \in Nat /\ j \in Nat
        /\ Len(m) + c = 64 * j
        /\ o # 0 => j = q + 1 /\ c = 64 - o /\ c >= 1
    BY <1>1
  <1> HIDE DEF left
  <1>5. l \in Nat /\ r \in Nat /\ r < 64 /\ left = 64 * l + r /\ r <= left
    BY <1>4
  <1>6. t = [count |-> Counted(s.count, n), abcd |-> Compressed(first, d, c)[l],
             buf |-> CopiedTo(filled, 0, rest)]
    <2> HIDE DEF c
    <2> DEFINE copy == IF o = 0 THEN 0 ELSE IF o + n > 64 THEN 64 - o ELSE n
    <2>1. copy = c /\ ~(o # 0 /\ o + copy < 64)
      BY <1>1 DEF c
    <2> HIDE DEF copy
    <2> QED
      BY <1>3, <2>1 DEF md5_append, BlockLen, n, copy, left
  <1> HIDE DEF c, t, e, j, l, r
  <1>7. t.count = BitsOf(Len(e))
    <2>1. Counted(BitsOf(Len(m)), n) = BitsOf(Len(m) + n)
      BY <1>1, CountAdds
    <2> QED
      BY <1>2, <1>6, <2>1 DEF Represents
  <1>8. /\ Len(e) = 64 * (j + l) + r
        /\ Len(e) \div 64 = j + l /\ Len(e) % 64 = r
    <2>1. Len(e) = 64 * (j + l) + r
      BY <1>1, <1>2, <1>4, <1>5 DEF left
    <2> QED
      BY <1>4, <1>5, <2>1
  <1>9. \A i \in 1..n : e[Len(m) + i] = d[i]
    <2> SUFFICES ASSUME NEW i \in 1..n PROVE e[Len(m) + i] = d[i]
      OBVIOUS
    <2>1. /\ Len(m) + i \in 1..(Len(m) + n) /\ ~(Len(m) + i <= Len(m))
          /\ (Len(m) + i) - Len(m) = i
      BY <1>1
    <2> QED
      BY <1>2, <2>1
  <1>10. o # 0 => filled = BlockAt(e, 0 + BlockLen * q)
    <2> SUFFICES ASSUME o # 0 PROVE BlockAt(e, 0 + BlockLen * q) = filled
      OBVIOUS
    <2>1. \A i \in 1..c : head[i] = d[i]
      <3>1. \A i \in 1..c : d[i] \in S
        <4>1. \A i \in 1..c : i \in 1..Len(d)
          BY <1>1, <1>4 DEF n
        <4> QED
          BY <4>1, ElementOfSeq
      <3>2. 1 \in Int /\ c \in Int /\ c - 1 + 1 = c
        BY <1>4
      <3>3. \A i \in 1..(c - 1 + 1) : head[i] = d[1 + i - 1]
        BY <3>1, <3>2, SubSeqProperties
      <3> HIDE DEF head
      <3>4. ASSUME NEW i \in 1..c PROVE 1 + i - 1 = i
        BY <1>4
      <3> QED
        BY <3>2, <3>3, <3>4
    <2>2. Len(head) = c
      <3>1. \A i \in 1..c : d[i] \in S
        <4>1. \A i \in 1..c : i \in 1..Len(d)
          BY <1>1, <1>4 DEF n
        <4> QED
          BY <4>1, ElementOfSeq
      <3>2. 1 \in Int /\ c \in Int /\ c - 1 + 1 = c /\ 1 <= c
        BY <1>4
      <3>3. Len(head) = IF 1 <= c THEN c - 1 + 1 ELSE 0
        BY <3>1, <3>2, SubSeqProperties
      <3> QED
        BY <3>2, <3>3
    <2> HIDE DEF head
    <2>3. o + c = BlockLen /\ BlockLen \in Nat
      BY <1>1, <1>4 DEF BlockLen
    <2> DEFINE p == 0 + BlockLen * q
    <2>4. p \in Nat /\ Len(m) = p + o /\ p + BlockLen <= Len(e)
      BY <1>1, <1>2, <1>4 DEF BlockLen
    <2>5. filled = [i \in 1..BlockLen |-> IF i > o THEN head[i - o] ELSE s.buf[i]]
      <3>1. \A i \in 1..BlockLen : i <= o + Len(head)
        BY <1>1, <2>2, <2>3
      <3> QED
        BY <3>1 DEF CopiedTo
    <2> HIDE DEF p, filled
    <2>6. ASSUME NEW i \in 1..BlockLen PROVE filled[i] = e[p + i]
      <3>1. CASE i > o
        <4>1. i - o \in 1..c /\ i - o \in 1..n /\ Len(m) + (i - o) = p + i
          BY <1>1, <1>4, <2>3, <2>4, <3>1
        <4>2. filled[i] = d[i - o]
          BY <2>1, <2>5, <3>1, <4>1
        <4>3. e[Len(m) + (i - o)] = d[i - o]
          BY <1>9, <4>1
        <4> QED
          BY <4>1, <4>2, <4>3
      <3>2. CASE ~(i > o)
        <4>1. i \in 1..o /\ p + i \in 1..(Len(m) + n) /\ p + i <= Len(m)
          BY <1>1, <2>3, <2>4, <3>2
        <4>2. s.buf[i] = m[64 * q + i]
          BY <4>1 DEF Represents, o, q
        <4>3. 64 * q + i = p + i
          BY <1>1 DEF p, BlockLen
        <4>4. e[p + i] = m[p + i]
          BY <1>2, <4>1
        <4>5. filled[i] = s.buf[i]
          BY <2>5, <3>2
        <4> QED
          BY <4>2, <4>3, <4>4, <4>5
      <3> QED
        BY <3>1, <3>2
    <2>7. filled \in Seq(S) /\ Len(filled) = BlockLen
      <3>1. \A i \in 1..BlockLen : e[p + i] \in S
        <4>1. \A i \in 1..BlockLen : p + i \in 1..Len(e)
          <5>1. Len(e) \in Nat
            BY <1>1, <1>2
          <5> QED
            BY <2>3, <2>4, <5>1
        <4> QED
          BY <1>2, <4>1, ElementOfSeq
      <3>2. filled \in [1..BlockLen -> S]
        <4>1. DOMAIN filled = 1..BlockLen /\ filled = [i \in 1..BlockLen |-> filled[i]]
          BY <2>5
        <4>2. \A i \in 1..BlockLen : filled[i] \in S
          BY <2>6, <3>1
        <4> QED
          BY <4>1, <4>2
      <3> QED
        BY <2>3, <3>2
    <2>8. BlockAt(e, p) = filled
      BY <1>2, <2>4, <2>6, <2>7, BlockIs
    <2> QED
      BY <2>8 DEF p
  <1> HIDE DEF filled
  <1>11. first = After(Chaining, e, j, 0)
    <2>1. Compressed(Chaining, e, 0)[q] = s.abcd
      <3>1. Compressed(Chaining, m \o d, 0)[q] = Registers(m)
        BY RegistersKept DEF q
      <3> QED
        BY <3>1 DEF Represents, e
    <2>2. j + 0 = j
      BY <1>4
    <2>3. CASE o = 0
      <3>1. j = q
        BY <2>3 DEF j
      <3> QED
        BY <2>1, <2>2, <2>3, <3>1 DEF After
    <2>4. CASE o # 0
      <3>1. j = q + 1
        BY <2>4 DEF j
      <3>2. Compressed(Chaining, e, 0)[q + 1]
              = Process(Compressed(Chaining, e, 0)[q], BlockAt(e, 0 + BlockLen * q))
        BY <1>1, CompressedSteps
      <3> QED
        BY <1>10, <2>1, <2>2, <2>4, <3>1, <3>2 DEF After
    <2> QED
      BY <2>3, <2>4
  <1> HIDE DEF first
  <1>12. Agree(d, c, e, j, l)
    <2> SUFFICES ASSUME NEW k \in 0..(l - 1)
                 PROVE  BlockAt(d, c + BlockLen * k) = BlockAt(e, 0 + BlockLen * (j + k))
      BY DEF Agree
    <2> DEFINE p == c + BlockLen * k
               u == 0 + BlockLen * (j + k)
    <2>1. /\ p \in Nat /\ u \in Nat /\ u = Len(m) + p /\ BlockLen \in Nat
          /\ p + BlockLen <= n /\ u + BlockLen <= Len(e)
      BY <1>1, <1>2, <1>4, <1>5 DEF BlockLen, left
    <2> HIDE DEF p, u
    <2> DEFINE b == BlockAt(d, p)
    <2>2. b \in Seq(S) /\ Len(b) = BlockLen /\ \A i \in 1..BlockLen : b[i] = d[p + i]
      BY <2>1, BlockFacts DEF n
    <2> HIDE DEF b
    <2>3. ASSUME NEW i \in 1..BlockLen PROVE b[i] = e[u + i]
      <3>1. p + i \in 1..n /\ u + i = Len(m) + (p + i)
        BY <1>1, <2>1
      <3>2. e[Len(m) + (p + i)] = d[p + i]
        BY <1>9, <3>1
      <3> QED
        BY <2>2, <3>1, <3>2
    <2>4. BlockAt(e, u) = b
      BY <1>2, <2>1, <2>2, <2>3, BlockIs
    <2> QED
      BY <2>4 DEF b, p, u
  <1>13. t.abcd = Registers(e)
    <2>1. Compressed(first, d, c)[l] = After(Chaining, e, j, l)
      BY <1>4, <1>5, <1>11, <1>12, SameBlocks
    <2> QED
      BY <1>6, <1>8, <2>1 DEF Registers, BlockLen, After
  <1>14. ASSUME NEW i \in 1..r PROVE t.buf[i] = e[64 * (j + l) + i]
    <2> DEFINE f == n - (left % 64) + 1
    <2>1. f \in Int /\ f >= 1 /\ f = n - r + 1 /\ n - f + 1 = r /\ f <= n
      BY <1>1, <1>4, <1>5 DEF r, left
    <2>2. \A k \in f..n : d[k] \in S
      <3>1. \A k \in f..n : k \in 1..Len(d)
        BY <1>1, <2>1 DEF n
      <3> QED
        BY <3>1, ElementOfSeq
    <2>3. /\ Len(rest) = IF f <= n THEN n - f + 1 ELSE 0
          /\ \A k \in 1..(n - f + 1) : rest[k] = d[f + k - 1]
      <3> HIDE DEF f
      <3>1. n \in Int
        BY <1>1
      <3>2. /\ Len(SubSeq(d, f, n)) = IF f <= n THEN n - f + 1 ELSE 0
            /\ \A k \in 1..(n - f + 1) : SubSeq(d, f, n)[k] = d[f + k - 1]
        BY <2>1, <2>2, <3>1, SubSeqProperties
      <3> QED
        BY <3>2 DEF f
    <2> HIDE DEF f, rest
    <2>4. Len(rest) = r /\ rest[i] = d[f + i - 1]
      BY <2>1, <2>3
    <2>5. t.buf[i] = rest[i]
      <3>1. i \in 1..BlockLen /\ i > 0 /\ i <= 0 + r /\ i - 0 = i
        BY <1>5 DEF BlockLen
      <3>2. t.buf = CopiedTo(filled, 0, rest)
        BY <1>6
      <3> QED
        BY <2>4, <3>1, <3>2 DEF CopiedTo
    <2>6. f + i - 1 \in 1..n
      BY <1>1, <1>5, <2>1
    <2>7. Len(m) + (f + i - 1) = 64 * (j + l) + i
      <3>1. f + i - 1 = n - r + i
        BY <1>1, <1>5, <2>1
      <3> DEFINE y == 64 * (j + l)
      <3>2. Len(m) + n = y + r /\ y \in Int
        <4>1. j + l \in Int
          BY <1>4, <1>5
        <4>2. y \in Int
          BY <4>1
        <4> HIDE DEF y
        <4>3. Len(e) = y + r
          BY <1>8 DEF y
        <4>4. Len(e) = Len(m) + n
          BY <1>2
        <4> QED
          BY <4>2, <4>3, <4>4
      <3> HIDE DEF y
      <3>3. r \in Int /\ n \in Int /\ Len(m) \in Int /\ i \in Int
        BY <1>1, <1>5
      <3>4. Len(m) + (n - r + i) = y + i
        BY <3>2, <3>3
      <3> QED
        BY <3>1, <3>4 DEF y
    <2> QED
      BY <1>9, <2>4, <2>5, <2>6, <2>7
  <1> QED
    BY <1>7, <1>8, <1>13, <1>14 DEF Represents, t, e

(* A state and a piece give the state of the longer message.               *)
LEMMA Appended ==
    ASSUME NEW S, NEW m \in Seq(S), NEW d \in Seq(S), NEW s, Represents(s, m)
    PROVE  Represents(md5_append(s, d), m \o d)
  <1>1. CASE d = << >>
    <2>1. md5_append(s, d) = s
      BY <1>1 DEF md5_append
    <2>2. m \o d = m
      BY <1>1, ConcatEmptySeq
    <2> QED
      BY <2>1, <2>2
  <1>2. CASE d # << >> /\ Len(m) % 64 # 0 /\ (Len(m) % 64) + Len(d) < 64
    BY <1>2, AppendPartial
  <1>3. CASE d # << >> /\ (Len(m) % 64 = 0 \/ (Len(m) % 64) + Len(d) >= 64)
    BY <1>3, AppendFull
  <1>4. (Len(m) % 64) + Len(d) < 64 \/ (Len(m) % 64) + Len(d) >= 64
    <2>1. Len(m) \in Nat /\ Len(d) \in Nat
      OBVIOUS
    <2> QED
      BY <2>1
  <1> QED
    BY <1>1, <1>2, <1>3, <1>4

-----------------------------------------------------------------------------
(* The padding.                                                            *)

LEMMA FunctionIsSeq ==
    ASSUME NEW S, NEW k \in Nat, NEW s \in [1..k -> S]
    PROVE  s \in Seq(S) /\ Len(s) = k
  OBVIOUS

(* The beginning of Pad is one bit and zeros.                              *)
LEMMA PadIs ==
    ASSUME NEW l \in Nat, l >= 1, l <= BlockLen
    PROVE  SubSeq(Pad, 1, l) = <<128>> \o [i \in 1..(l - 1) |-> 0]
  <1> DEFINE p == SubSeq(Pad, 1, l)
             z == [i \in 1..(l - 1) |-> 0]
             u == <<128>> \o z
  <1>1. BlockLen \in Nat /\ 1 \in Int /\ l \in Int /\ l - 1 + 1 = l
    BY DEF BlockLen
  <1>2. \A i \in 1..l : Pad[i] = IF i = 1 THEN 128 ELSE 0
    BY <1>1 DEF Pad
  <1>3. /\ p \in Seq(Nat)
        /\ Len(p) = IF 1 <= l THEN l - 1 + 1 ELSE 0
        /\ \A i \in 1..(l - 1 + 1) : p[i] = Pad[1 + i - 1]
    <2>1. \A i \in 1..l : Pad[i] \in Nat
      BY <1>2
    <2> QED
      BY <1>1, <2>1, SubSeqProperties
  <1>4. z \in Seq(Nat) /\ Len(z) = l - 1 /\ \A i \in 1..(l - 1) : z[i] = 0
    <2>1. l - 1 \in Nat
      OBVIOUS
    <2>2. z \in [1..(l - 1) -> Nat]
      OBVIOUS
    <2> QED
      BY <2>1, <2>2
  <1>5. <<128>> \in Seq(Nat) /\ Len(<<128>>) = 1 /\ <<128>>[1] = 128
    OBVIOUS
  <1> HIDE DEF p, z
  <1>6. /\ u \in Seq(Nat) /\ Len(u) = 1 + (l - 1)
        /\ \A i \in 1..(1 + (l - 1)) : u[i] = IF i <= 1 THEN <<128>>[i] ELSE z[i - 1]
    <2>1. /\ u \in Seq(Nat) /\ Len(u) = Len(<<128>>) + Len(z)
          /\ \A i \in 1..(Len(<<128>>) + Len(z)) :
                u[i] = IF i <= Len(<<128>>) THEN <<128>>[i] ELSE z[i - Len(<<128>>)]
      BY <1>4, <1>5, ConcatProperties
    <2> QED
      BY <1>4, <1>5, <2>1
  <1> HIDE DEF u
  <1>7. Len(p) = l /\ Len(u) = l
    BY <1>3, <1>6
  <1>8. ASSUME NEW i \in 1..Len(p) PROVE p[i] = u[i]
    <2>1. i \in 1..l /\ i \in 1..(l - 1 + 1) /\ i \in 1..(1 + (l - 1)) /\ 1 + i - 1 = i
      BY <1>7
    <2>2. p[i] = IF i = 1 THEN 128 ELSE 0
      BY <1>2, <1>3, <2>1
    <2>3. CASE i = 1
      BY <1>5, <1>6, <2>1, <2>2, <2>3
    <2>4. CASE i # 1
      <3>1. i - 1 \in 1..(l - 1) /\ ~(i <= 1)
        BY <2>1, <2>4
      <3> QED
        BY <1>4, <1>6, <2>1, <2>2, <2>4, <3>1
    <2> QED
      BY <2>3, <2>4
  <1>9. p = u
    BY <1>3, <1>6, <1>7, <1>8, SeqEqual
  <1> QED
    BY <1>9 DEF p, u, z

(* md5_finish appends as many zeros as MD5 asks for.                       *)
LEMMA ZerosOf ==
    ASSUME NEW n \in Nat
    PROVE  Zeros(n) = PadLength(BitsOf(n)) - 1
  <1> DEFINE l == PadLength(BitsOf(n))
             P(z) == (n + 1 + z) % 64 = 56
             zs == Zeros(n)
  <1>1. l \in 1..64 /\ (n + l) % 64 = 56
    BY PadLengthOf
  <1> HIDE DEF l
  <1>2. l - 1 \in 0..63 /\ P(l - 1)
    <2>1. n + 1 + (l - 1) = n + l
      BY <1>1
    <2> QED
      BY <1>1, <2>1
  <1>3. zs = CHOOSE z \in 0..63 : P(z)
    BY DEF Zeros, BlockLen
  <1> HIDE DEF zs
  <1>4. zs \in 0..63 /\ P(zs)
    <2> HIDE DEF P
    <2> QED
      BY <1>2, <1>3
  <1>5. zs = l - 1
    <2> DEFINE k == l - 1
               d == (n + 1 + k) \div 64
               c == (n + 1 + zs) \div 64
    <2>1. k \in Nat /\ k < 64 /\ zs \in Nat /\ zs < 64
      BY <1>2, <1>4
    <2>2. (n + 1 + k) % 64 = 56 /\ (n + 1 + zs) % 64 = 56
      BY <1>2, <1>4
    <2> HIDE DEF k, P
    <2>3. d \in Nat /\ n + 1 + k = 64 * d + 56
      BY <2>1, <2>2
    <2>4. c \in Nat /\ n + 1 + zs = 64 * c + 56
      BY <2>1, <2>2
    <2> HIDE DEF d, c
    <2>5. zs = k
      BY <2>1, <2>3, <2>4
    <2> QED
      BY <2>5 DEF k
  <1> QED
    BY <1>5 DEF zs, l

(* The bytes of the length can be put behind a message.                    *)
LEMMA BytesOfLength ==
    ASSUME NEW a, NEW b
    PROVE  \E S : /\ Nat \subseteq S
                  /\ LowBytes(a, 4) \in Seq(S) /\ LowBytes(b, 4) \in Seq(S)
  <1> DEFINE F(n, i) == (n \div 256 ^ (i - 1)) % 256
             S == Nat \cup {F(a, i) : i \in 1..4} \cup {F(b, i) : i \in 1..4}
  <1>1. LowBytes(a, 4) = [i \in 1..4 |-> F(a, i)] /\ LowBytes(b, 4) = [i \in 1..4 |-> F(b, i)]
    BY DEF LowBytes
  <1> HIDE DEF F
  <1>2. LowBytes(a, 4) \in [1..4 -> S] /\ LowBytes(b, 4) \in [1..4 -> S]
    BY <1>1
  <1> HIDE DEF S
  <1>3. LowBytes(a, 4) \in Seq(S) /\ LowBytes(b, 4) \in Seq(S)
    <2>1. 4 \in Nat
      OBVIOUS
    <2> QED
      BY <1>2, <2>1, FunctionIsSeq
  <1>4. Nat \subseteq S
    BY DEF S
  <1> QED
    BY <1>3, <1>4

(* md5_finish of the state of a message returns its digest.                *)
LEMMA Finished ==
    ASSUME NEW m \in Seq(Nat), NEW s, Represents(s, m)
    PROVE  md5_finish(s) = Registers(Padded(m))
  <1> DEFINE n == Len(m)
             l == PadLength(BitsOf(n))
             pad == SubSeq(Pad, 1, l)
             u == <<128>>
             z == [i \in 1..Zeros(n) |-> 0]
             x == LowBytes(BitsOf(n)[1], 4)
             y == LowBytes(BitsOf(n)[2], 4)
             t == md5_append(s, pad)
  <1>1. s.count = BitsOf(n)
    BY DEF Represents
  <1>2. md5_finish(s) = md5_append(t, x \o y).abcd
    BY <1>1 DEF md5_finish, LengthBytes
  <1>3. Padded(m) = (((m \o u) \o z) \o x) \o y
    BY DEF Padded
  <1>4. n \in Nat
    OBVIOUS
  <1> HIDE DEF n
  <1>5. l \in Nat /\ l >= 1 /\ l <= 64 /\ Zeros(n) = l - 1
    <2>1. l \in 1..64
      BY <1>4, PadLengthOf
    <2>2. Zeros(n) = l - 1
      BY <1>4, ZerosOf
    <2> HIDE DEF l
    <2> QED
      BY <2>1, <2>2
  <1> HIDE DEF l, x, y, t
  <1>6. pad = u \o z
    BY <1>5, PadIs DEF BlockLen
  <1> HIDE DEF pad
  <1>7. u \in Seq(Nat) /\ z \in Seq(Nat)
    <2>1. l - 1 \in Nat
      BY <1>5
    <2>2. z \in [1..(l - 1) -> Nat]
      BY <1>5
    <2>3. z \in Seq(Nat)
      BY <2>1, <2>2, FunctionIsSeq
    <2> QED
      BY <2>3
  <1> HIDE DEF u, z
  <1>8. PICK S : Nat \subseteq S /\ x \in Seq(S) /\ y \in Seq(S)
    BY BytesOfLength DEF x, y
  <1>9. m \in Seq(S) /\ u \in Seq(S) /\ z \in Seq(S)
    BY <1>7, <1>8, SeqMonotonic
  <1>10. pad \in Seq(S) /\ m \o pad \in Seq(S) /\ x \o y \in Seq(S)
    BY <1>6, <1>8, <1>9, ConcatProperties
  <1>11. Represents(t, m \o pad)
    BY <1>9, <1>10, Appended DEF t
  <1>12. Represents(md5_append(t, x \o y), (m \o pad) \o (x \o y))
    BY <1>10, <1>11, Appended
  <1>13. (m \o pad) \o (x \o y) = Padded(m)
    <2>1. m \o pad = (m \o u) \o z
      BY <1>6, <1>9, ConcatAssociative
    <2> DEFINE a == m \o pad
    <2>2. a \in Seq(S)
      BY <1>10
    <2> HIDE DEF a
    <2>3. (a \o x) \o y = a \o (x \o y)
      BY <1>8, <2>2, ConcatAssociative
    <2> QED
      BY <1>3, <2>1, <2>3 DEF a
  <1> QED
    BY <1>2, <1>12, <1>13 DEF Represents

-----------------------------------------------------------------------------
(* The messages.                                                           *)

TypeOK == sent \in Nat /\ sent <= Len(Message)

(* The state is that of what was sent, and a digest that of the message.   *)
IInv ==
    /\ TypeOK
    /\ Represents(pms, Sent)
    /\ DigestOfMessage

LEMMA StartOfMessage ==
    Represents(md5_init(Garbage), SubSeq(Message, 1, 0))
  <1>1. SubSeq(Message, 1, 0) = << >>
    BY SubSeqEmpty
  <1>2. Len(<< >>) = 0 /\ 0 \div 64 = 0 /\ 0 % 64 = 0 /\ 1..0 = {}
    OBVIOUS
  <1>3. BitsOf(0) = << 0, 0 >>
    <2>1. CountLimit \in Nat /\ CountLimit > 0
      BY CountAssumption
    <2>2. 8 * 0 = 0 /\ 0 % CountLimit = 0 /\ 0 \div CountLimit = 0
      BY <2>1
    <2> QED
      BY <2>2 DEF BitsOf
  <1>4. Registers(<< >>) = Chaining
    BY <1>2, CompressedStart DEF Registers, BlockLen
  <1>5. /\ md5_init(Garbage).count = << 0, 0 >>
        /\ md5_init(Garbage).abcd = Chaining
    BY DEF md5_init
  <1> QED
    BY <1>1, <1>2, <1>3, <1>4, <1>5 DEF Represents

LEMMA InitIInv == Init => IInv
  <1> SUFFICES ASSUME Init PROVE IInv
    OBVIOUS
  <1>1. TypeOK
    BY MessageAssumption DEF Init, TypeOK
  <1>2. Represents(pms, Sent)
    BY StartOfMessage DEF Init, Sent
  <1>3. DigestOfMessage
    BY DEF Init, DigestOfMessage
  <1> QED
    BY <1>1, <1>2, <1>3 DEF IInv

LEMMA PieceIInv ==
    ASSUME IInv, NEW n \in Pieces, Piece(n)
    PROVE  IInv'
  <1> DEFINE d == SubSeq(Message, sent + 1, sent + n)
             m == SubSeq(Message, 1, sent)
  <1>1. Message \in Seq(Nat) /\ n \in Nat /\ Len(Message) \in Nat
    BY MessageAssumption
  <1>2. /\ sent \in Nat /\ sent <= Len(Message) /\ sent + n <= Len(Message)
        /\ sent' = sent + n /\ digest' = digest /\ digest = NoDigest
        /\ pms' = md5_append(pms, d)
    BY DEF IInv, TypeOK, Piece
  <1>3. TypeOK'
    BY <1>1, <1>2 DEF TypeOK
  <1>4. m \in Seq(Nat) /\ d \in Seq(Nat)
    <2>1. ASSUME NEW i \in 1..Len(Message) PROVE Message[i] \in Nat
      BY <1>1, ElementOfSeq
    <2>2. \A i \in 1..sent : i \in 1..Len(Message)
      BY <1>1, <1>2
    <2>3. \A i \in (sent + 1)..(sent + n) : i \in 1..Len(Message)
      BY <1>1, <1>2
    <2>4. 1 \in Int /\ sent \in Int /\ sent + 1 \in Int /\ sent + n \in Int
      BY <1>1, <1>2
    <2> QED
      BY <2>1, <2>2, <2>3, <2>4, SubSeqProperties
  <1>5. m \o d = SubSeq(Message, 1, sent + n)
    <2>1. /\ 1 \in 1..(Len(Message) + 1) /\ sent \in (1 - 1)..Len(Message)
          /\ sent + n \in sent..Len(Message)
      BY <1>1, <1>2
    <2> QED
      BY <1>1, <2>1, ConcatAdjacentSubSeq
  <1> HIDE DEF d, m
  <1>6. Represents(pms, m)
    BY DEF IInv, Sent, m
  <1>7. Represents(pms', m \o d)
    BY <1>2, <1>4, <1>6, Appended
  <1>8. Represents(pms, Sent)'
    BY <1>2, <1>5, <1>7 DEF Represents, Sent
  <1>9. DigestOfMessage'
    BY <1>2 DEF DigestOfMessage
  <1> QED
    BY <1>3, <1>8, <1>9 DEF IInv

LEMMA SentIsSeq ==
    ASSUME TypeOK
    PROVE  /\ Sent \in Seq(Nat) /\ Len(Sent) = sent
           /\ \A i \in 1..sent : Sent[i] = Message[i]
  <1>1. Message \in Seq(Nat) /\ Len(Message) \in Nat /\ sent \in Nat /\ sent <= Len(Message)
    BY MessageAssumption DEF TypeOK
  <1>2. \A i \in 1..sent : Message[i] \in Nat
    <2>1. \A i \in 1..sent : i \in 1..Len(Message)
      BY <1>1
    <2> QED
      BY <1>1, <2>1, ElementOfSeq
  <1>3. /\ Sent \in Seq(Nat) /\ Len(Sent) = IF 1 <= sent THEN sent - 1 + 1 ELSE 0
        /\ \A i \in 1..(sent - 1 + 1) : Sent[i] = Message[1 + i - 1]
    <2>1. 1 \in Int /\ sent \in Int
      BY <1>1
    <2> QED
      BY <1>2, <2>1, SubSeqProperties DEF Sent
  <1>4. sent - 1 + 1 = sent /\ \A i \in 1..sent : 1 + i - 1 = i
    BY <1>1
  <1>5. Len(Sent) = sent
    BY <1>1, <1>3
  <1> QED
    BY <1>3, <1>4, <1>5

LEMMA FinishIInv ==
    ASSUME IInv, Finish
    PROVE  IInv'
  <1>1. digest' = md5_finish(pms) /\ pms' = pms /\ sent' = sent /\ Sent' = Sent
    BY DEF Finish, Sent
  <1>2. TypeOK' /\ Represents(pms, Sent)'
    BY <1>1 DEF IInv, TypeOK, Represents
  <1>3. md5_finish(pms) = Registers(Padded(Sent))
    BY SentIsSeq, Finished DEF IInv
  <1>4. DigestOfMessage'
    BY <1>1, <1>3 DEF DigestOfMessage
  <1> QED
    BY <1>2, <1>4 DEF IInv

LEMMA RestartIInv ==
    ASSUME IInv, Restart
    PROVE  IInv'
  <1>1. pms' = md5_init(Garbage) /\ sent' = 0 /\ digest' = NoDigest
    BY DEF Restart
  <1>2. TypeOK'
    BY <1>1, MessageAssumption DEF TypeOK
  <1>3. Represents(pms, Sent)'
    BY <1>1, StartOfMessage DEF Represents, Sent
  <1>4. DigestOfMessage'
    BY <1>1 DEF DigestOfMessage
  <1> QED
    BY <1>2, <1>3, <1>4 DEF IInv

LEMMA NextIInv == IInv /\ [Next]_vars => IInv'
  <1> SUFFICES ASSUME IInv, [Next]_vars PROVE IInv'
    OBVIOUS
  <1>1. ASSUME NEW n \in Pieces, Piece(n) PROVE IInv'
    BY <1>1, PieceIInv
  <1>2. CASE Finish
    BY <1>2, FinishIInv
  <1>3. CASE Restart
    BY <1>3, RestartIInv
  <1>4. CASE UNCHANGED vars
    BY <1>4 DEF vars, IInv, TypeOK, Represents, Sent, DigestOfMessage
  <1> QED
    BY <1>1, <1>2, <1>3, <1>4 DEF Next

THEOREM InvariantHolds == Spec => []IInv
  BY InitIInv, NextIInv, PTL DEF Spec

(* The end of a message is its last, unfinished block.                     *)
LEMMA RestOfMessage ==
    ASSUME TypeOK, Represents(pms, Sent)
    PROVE  SubSeq(pms.buf, 1, sent % BlockLen)
             = SubSeq(Message, sent - (sent % BlockLen) + 1, sent)
  <1> DEFINE r == sent % 64
             q == sent \div 64
             f == sent - r + 1
             b == SubSeq(pms.buf, 1, r)
             e == SubSeq(Message, f, sent)
  <1>1. /\ sent \in Nat /\ q \in Nat /\ r \in Nat /\ r < 64 /\ sent = 64 * q + r
    BY DEF TypeOK
  <1>2. Sent \in Seq(Nat) /\ Len(Sent) = sent /\ \A i \in 1..sent : Sent[i] = Message[i]
    BY SentIsSeq
  <1>3. \A i \in 1..r : pms.buf[i] = Sent[64 * q + i]
    BY <1>2 DEF Represents
  <1> HIDE DEF r, q
  <1>4. /\ f \in Int /\ f >= 1 /\ sent - f + 1 = r /\ f = 64 * q + 1
        /\ r - 1 + 1 = r /\ (f <= sent <=> 1 <= r)
    BY <1>1
  <1>5. ASSUME NEW i \in 1..r
        PROVE  /\ f + i - 1 = 64 * q + i /\ f + i - 1 \in 1..sent
               /\ pms.buf[i] = Message[f + i - 1] /\ pms.buf[i] \in Nat
    <2>1. f + i - 1 = 64 * q + i /\ f + i - 1 \in 1..sent
      BY <1>1
    <2>2. pms.buf[i] = Sent[f + i - 1]
      BY <1>3, <2>1
    <2>3. Sent[f + i - 1] \in Nat
      BY <1>2, <2>1, ElementOfSeq
    <2> QED
      BY <1>2, <2>1, <2>2, <2>3
  <1> HIDE DEF f
  <1>6. \A k \in f..sent : Message[k] \in Nat
    <2>1. \A k \in f..sent : k \in 1..sent
      BY <1>1, <1>4
    <2> QED
      BY <1>2, <2>1, ElementOfSeq
  <1>7. /\ b \in Seq(Nat) /\ Len(b) = IF 1 <= r THEN r - 1 + 1 ELSE 0
        /\ \A i \in 1..(r - 1 + 1) : b[i] = pms.buf[1 + i - 1]
    <2>1. 1 \in Int /\ r \in Int
      BY <1>1
    <2>2. \A i \in 1..r : pms.buf[i] \in Nat
      BY <1>5
    <2> QED
      BY <2>1, <2>2, SubSeqProperties
  <1>8. /\ e \in Seq(Nat) /\ Len(e) = IF f <= sent THEN sent - f + 1 ELSE 0
        /\ \A i \in 1..(sent - f + 1) : e[i] = Message[f + i - 1]
    <2>1. sent \in Int
      BY <1>1
    <2> QED
      BY <1>4, <1>6, <2>1, SubSeqProperties
  <1> HIDE DEF b, e
  <1>9. Len(b) = r /\ Len(e) = r
    BY <1>1, <1>4, <1>7, <1>8
  <1>10. ASSUME NEW i \in 1..Len(b) PROVE b[i] = e[i]
    <2>1. i \in 1..r /\ i \in 1..(r - 1 + 1) /\ i \in 1..(sent - f + 1) /\ 1 + i - 1 = i
      BY <1>1, <1>4, <1>9
    <2>2. b[i] = pms.buf[i]
      BY <1>7, <2>1
    <2> QED
      BY <1>5, <1>8, <2>1, <2>2
  <1>11. b = e
    BY <1>7, <1>8, <1>9, <1>10, SeqEqual
  <1> QED
    BY <1>11 DEF b, e, f, r, BlockLen

(* md5_append (md5sum.c:325-361): whatever the compression does, however a *)
(* message is cut and whatever the buffer held, the state has compressed   *)
(* every full block once, in order, keeps the rest of the message and      *)
(* counts its bits in two words.                                           *)
THEOREM StateDependsOnMessage == Spec => []StateOfMessage
  <1>1. IInv => StateOfMessage
    <2> SUFFICES ASSUME IInv PROVE StateOfMessage
      OBVIOUS
    <2>1. Len(Sent) = sent
      BY SentIsSeq DEF IInv
    <2>2. pms.abcd = Registers(Sent) /\ pms.count = BitsOf(sent)
      BY <2>1 DEF IInv, Represents
    <2>3. SubSeq(pms.buf, 1, sent % BlockLen)
            = SubSeq(Message, sent - (sent % BlockLen) + 1, sent)
      BY RestOfMessage DEF IInv
    <2> QED
      BY <2>2, <2>3 DEF StateOfMessage
  <1> QED
    BY <1>1, InvariantHolds, PTL

(* md5_finish (md5sum.c:363-384): the digest is that of the message with   *)
(* its padding and its length, for every length and every cut.             *)
THEOREM DigestDependsOnMessage == Spec => []DigestOfMessage
  <1>1. IInv => DigestOfMessage
    BY DEF IInv
  <1> QED
    BY <1>1, InvariantHolds, PTL

=============================================================================
