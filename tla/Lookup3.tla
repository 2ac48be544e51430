------------------------------ MODULE Lookup3 -------------------------------
(***************************************************************************)
(* The hash functions of src/src/cbits/lookup3.c, which the string table   *)
(* uses.  A key is read in groups of three words a, b, c, by whole words,  *)
(* half words or single bytes as its address and the byte order of the     *)
(* machine ("little", "big", or "unknown" where sys/param.h tells neither) *)
(* allow.  Memory mem is a function from addresses to bytes.               *)
(***************************************************************************)
EXTENDS Word32Bits, SequencesExt

-----------------------------------------------------------------------------
(* Mixing the triple abc = <<a, b, c>>.                                    *)

(* x -= z; x ^= rot(z, k); z += y, where x, y, z are the members of abc    *)
(* at the places of r.                                                     *)
Stir(abc, r, k) ==
    LET x == abc[r[1]]   y == abc[r[2]]   z == abc[r[3]]
    IN [abc EXCEPT ![r[1]] = BitXor(Minus(x, z), Rotated(z, k)),
                   ![r[3]] = Plus(z, y)]

mix(abc) ==
    FoldLeft(LAMBDA t, s : Stir(t, s[1], s[2]), abc,
             << <<<<1, 2, 3>>, 4>>,  <<<<2, 3, 1>>, 6>>,  <<<<3, 1, 2>>, 8>>,
                <<<<1, 2, 3>>, 16>>, <<<<2, 3, 1>>, 19>>, <<<<3, 1, 2>>, 4>> >>)

(* x ^= y; x -= rot(y, k).                                                 *)
Settle(abc, x, y, k) ==
    [abc EXCEPT ![x] = Minus(BitXor(abc[x], abc[y]), Rotated(abc[y], k))]

final(abc) ==
    FoldLeft(LAMBDA t, s : Settle(t, s[1], s[2], s[3]), abc,
             << <<3, 2, 14>>, <<1, 3, 11>>, <<2, 1, 25>>, <<3, 2, 16>>,
                <<1, 3, 4>>, <<2, 1, 14>>, <<3, 2, 24>> >>)

-----------------------------------------------------------------------------
(* Reading the word at address p of which r bytes, at least one, belong to *)
(* the key: 4 or more of them take the whole word.                         *)

LittleWord(mem, p) == Word(mem[p + 3] * 256 + mem[p + 2], mem[p + 1] * 256 + mem[p])
BigWord(mem, p)    == Word(mem[p] * 256 + mem[p + 1], mem[p + 2] * 256 + mem[p + 3])

(* A byte shifted up by 8 * i.                                             *)
Shifted(v, i) == IF i < 2 THEN Word(0, v * 256 ^ i) ELSE Word(v * 256 ^ (i - 2), 0)

LowMask  == << Word(0, 255), Word(0, 65535), Word(255, 65535) >>
HighMask == << Word(65280, 0), Word(65535, 0), Word(65535, 65280) >>

(* k[q] & 0xff.. of the aligned paths: the word is read whole, past the    *)
(* end of the key, and masked.                                             *)
Masked(word, mask, r) == IF r >= 4 THEN word ELSE BitAnd(word, mask[r])

(* A faulty variant: the last half word is added whole.                    *)
HalvesPastEnd(mem, p, r) ==
    IF r = 1 THEN Word(0, mem[p])
    ELSE Plus(Word(0, mem[p] + 256 * mem[p + 1]),
              IF r = 2 THEN Zero ELSE Word(mem[p + 2] + 256 * mem[p + 3], 0))

(* k[q] + (k[q+1] << 16) of the path with even addresses.                  *)
Halves(mem, p, r) ==
    LET low  == Word(0, mem[p] + 256 * mem[p + 1])
        high == Word(mem[p + 2] + 256 * mem[p + 3], 0)
    IN CASE r >= 4 -> Plus(low, high)
         [] r = 3  -> Plus(low, Shifted(mem[p + 2], 2))
         [] r = 2  -> low
         [] OTHER  -> Word(0, mem[p])

(* The sum of the bytes that are left, each shifted to its place.          *)
SingleBytes(mem, p, r, places) ==
    FoldLeft(Plus, Zero, [i \in 1..(IF r < 4 THEN r ELSE 4) |->
                              Shifted(mem[p + i - 1], places[i])])

(* The reading that hashlittle chooses for a key; a build for VALGRIND     *)
(* reads no word past the end.                                             *)
LittleAt(build, mem, key, p, r) ==
    CASE /\ build.order = "little" /\ key % 4 = 0
         /\ r >= 4 \/ ~build.valgrind -> Masked(LittleWord(mem, p), LowMask, r)
      [] build.order = "little" /\ key % 4 = 2 -> Halves(mem, p, r)
      [] OTHER -> SingleBytes(mem, p, r, <<0, 1, 2, 3>>)

(* The reading that hashbig chooses.                                       *)
BigAt(build, mem, key, p, r) ==
    IF build.order = "big" /\ key % 4 = 0 /\ (r >= 4 \/ ~build.valgrind)
    THEN Masked(BigWord(mem, p), HighMask, r)
    ELSE SingleBytes(mem, p, r, <<3, 2, 1, 0>>)

-----------------------------------------------------------------------------
(* The functions.                                                          *)

(* The words of a key of length bytes, the last one perhaps not whole.     *)
Places(length) == 1..((length + 3) \div 4)

LittleWords(build, mem, key, length) ==
    [i \in Places(length) |->
        LittleAt(build, mem, key, key + 4 * (i - 1), length - 4 * (i - 1))]

BigWords(build, mem, key, length) ==
    [i \in Places(length) |->
        BigAt(build, mem, key, key + 4 * (i - 1), length - 4 * (i - 1))]

(* a += .., b += .., c += .. for group g of the words, as far as it goes.  *)
Added(words, g, abc) ==
    [q \in 1..3 |-> LET i == 3 * (g - 1) + q
                    IN IF i <= Len(words) THEN Plus(abc[q], words[i]) ELSE abc[q]]

(* The loop over all groups but the last, and the switch on what is left:  *)
(* nothing at all for an empty key.                                        *)
Absorbed(words, abc) ==
    LET loops == (Len(words) - 1) \div 3
        mixed == FoldLeft(LAMBDA t, g : mix(Added(words, g, t)), abc,
                          [g \in 1..loops |-> g])
    IN IF words = << >> THEN abc ELSE final(Added(words, loops + 1, mixed))

Seeded(length, initval) ==
    LET a == Plus(Plus(Word(57005, 48879), Word(length \div Half, length)), initval)
    IN << a, a, a >>

hashlittle(build, mem, key, length, initval) ==
    Absorbed(LittleWords(build, mem, key, length), Seeded(length, initval))[3]

hashbig(build, mem, key, length, initval) ==
    Absorbed(BigWords(build, mem, key, length), Seeded(length, initval))[3]

(* k is a sequence of words; the seed counts its bytes.                    *)
hashword(k, initval) == Absorbed(k, Seeded(4 * Len(k), initval))[3]

-----------------------------------------------------------------------------
(* hashlittle2 and hashword2 are written out once more in the source, with *)
(* loads, masks, loops and switches of their own; what follows is read off *)
(* these copies.  They share with the above what they share in the source: *)
(* mix and final, and what a load or a shift of the machine means.         *)

SumOf(abc, addends) == [q \in 1..3 |-> Plus(abc[q], addends[q])]

(* uint16_t *k at p, on a little-endian machine.                           *)
HalfWord(mem, p) == mem[p] + 256 * mem[p + 1]

Path2(build, key) ==
    CASE build.order = "little" /\ key % 4 = 0 -> "words"
      [] build.order = "little" /\ key % 2 = 0 -> "halves"
      [] OTHER -> "bytes"

(* The loop: what is added to a, b and c from the 12 bytes at p.           *)
Block2(path, mem, p) ==
    [q \in 1..3 |->
        LET at == p + 4 * (q - 1)
        IN CASE path = "words"  -> LittleWord(mem, at)
             [] path = "halves" -> Plus(Word(0, HalfWord(mem, at)),
                                        Word(HalfWord(mem, at + 2), 0))
             [] path = "bytes"  -> FoldLeft(Plus, Zero,
                                     [i \in 1..4 |-> Shifted(mem[at + i - 1], i - 1)])]

All == Word(65535, 65535)

(* A faulty variant: a digit is missing in the mask of case 7.             *)
Masks2Short ==
    << <<Word(0, 255), Zero, Zero>>, <<Word(0, 65535), Zero, Zero>>,
       <<Word(255, 65535), Zero, Zero>>, <<All, Zero, Zero>>,
       <<All, Word(0, 255), Zero>>, <<All, Word(0, 65535), Zero>>,
       <<All, Word(15, 65535), Zero>>, <<All, All, Zero>>,
       <<All, All, Word(0, 255)>>, <<All, All, Word(0, 65535)>>,
       <<All, All, Word(255, 65535)>>, <<All, All, All>> >>

(* Aligned reads: the masks of k[0], k[1] and k[2] in cases 1 to 12; Zero  *)
(* where the case does not read the word.                                  *)
Masks2 ==
    << <<Word(0, 255), Zero, Zero>>, <<Word(0, 65535), Zero, Zero>>,
       <<Word(255, 65535), Zero, Zero>>, <<All, Zero, Zero>>,
       <<All, Word(0, 255), Zero>>, <<All, Word(0, 65535), Zero>>,
       <<All, Word(255, 65535), Zero>>, <<All, All, Zero>>,
       <<All, All, Word(0, 255)>>, <<All, All, Word(0, 65535)>>,
       <<All, All, Word(255, 65535)>>, <<All, All, All>> >>

MaskedWords2(mem, p, n) ==
    [q \in 1..3 |-> IF Masks2[n][q] = Zero THEN Zero
                    ELSE BitAnd(LittleWord(mem, p + 4 * (q - 1)), Masks2[n][q])]

(* The cases that fall through from n down to last + 1: k8[n-1], k8[n-2],  *)
(* and so on, each added to its word at its place.                         *)
FallThrough2(mem, p, n, last) ==
    [q \in 1..3 |->
        FoldLeft(LAMBDA sum, i : IF i > last /\ i <= n /\ (i - 1) \div 4 = q - 1
                                 THEN Plus(sum, Shifted(mem[p + i - 1], (i - 1) % 4))
                                 ELSE sum,
                 Zero, [i \in 1..12 |-> i])]

(* The aligned reads of a build for VALGRIND: bytes down to a whole word.  *)
WordsAndBytes2(mem, p, n) ==
    SumOf([q \in 1..3 |-> IF q <= n \div 4 THEN LittleWord(mem, p + 4 * (q - 1)) ELSE Zero],
          FallThrough2(mem, p, n, 4 * (n \div 4)))

(* Reads of half words: an odd byte, then k[q] and k[q] + (k[q+1] << 16).  *)
HalvesAndByte2(mem, p, n) ==
    SumOf([q \in 1..3 |->
              LET k(j) == IF 2 * j + 2 <= n THEN HalfWord(mem, p + 2 * j) ELSE 0
              IN Plus(Word(0, k(2 * q - 2)), Word(k(2 * q - 1), 0))],
          FallThrough2(mem, p, n, 2 * (n \div 2)))

(* switch(length), for the n bytes at p that are left.                     *)
Switch2(build, path, mem, p, n) ==
    CASE path = "words" /\ ~build.valgrind -> MaskedWords2(mem, p, n)
      [] path = "words" /\ build.valgrind  -> WordsAndBytes2(mem, p, n)
      [] path = "halves"                   -> HalvesAndByte2(mem, p, n)
      [] path = "bytes"                    -> FallThrough2(mem, p, n, 0)

(* <<pc, pb>> from <<pc, pb>>.                                             *)
hashlittle2(build, mem, key, length, pc, pb) ==
    LET seed  == Plus(Plus(Word(57005, 48879), Word(length \div Half, length)), pc)
        loops == IF length > 12 THEN (length - 1) \div 12 ELSE 0
        path  == Path2(build, key)
        mixed == FoldLeft(LAMBDA abc, g : mix(SumOf(abc, Block2(path, mem, key + 12 * g))),
                          << seed, seed, Plus(seed, pb) >>, [g \in 1..loops |-> g - 1])
        left  == length - 12 * loops
        abc   == IF left = 0 THEN mixed
                 ELSE final(SumOf(mixed, Switch2(build, path, mem, key + 12 * loops, left)))
    IN << abc[3], abc[2] >>

(* A faulty variant: the loop of hashword2 leaves an empty last group.     *)
Loops2Eager(length) == length \div 3

(* How often while (length > 3) { ..; length -= 3 } goes round.            *)
Loops2(length) == IF length > 3 THEN (length - 1) \div 3 ELSE 0

hashword2(k, pc, pb) ==
    LET seed  == Plus(Plus(Word(57005, 48879), Word((4 * Len(k)) \div Half, 4 * Len(k))), pc)
        loops == Loops2(Len(k))
        Triple(g) == [q \in 1..3 |-> IF 3 * g + q <= Len(k) THEN k[3 * g + q] ELSE Zero]
        mixed == FoldLeft(LAMBDA abc, g : mix(SumOf(abc, Triple(g))),
                          << seed, seed, Plus(seed, pb) >>, [g \in 1..loops |-> g - 1])
        abc   == IF Len(k) = 3 * loops THEN mixed ELSE final(SumOf(mixed, Triple(loops)))
    IN << abc[3], abc[2] >>

=============================================================================
