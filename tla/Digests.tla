------------------------------ MODULE Digests -------------------------------
(***************************************************************************)
(* The hash functions of src/src/cbits at work: a key in memory, moved and *)
(* surrounded as the self test of lookup3.c does (driver3), beside the     *)
(* messages of Md5Messages; and MD5 whole.                                 *)
(***************************************************************************)
EXTENDS Lookup3, Md5, Md5Messages

CONSTANTS
    MaxStart,       \* the addresses a key may start at: 1 .. MaxStart
    MaxLength       \* the longest key

VARIABLES
    build,          \* the machine's byte order as far as it is known, and VALGRIND
    start, length,  \* the address of the key and its length
    around          \* the bytes before and after the key

keyVars == <<build, start, length, around>>

-----------------------------------------------------------------------------
(* Keys.                                                                   *)

(* The text of driver3, as far as it is used.                              *)
Text ==
    <<84, 104, 105, 115, 32, 105, 115, 32, 116, 104, 101, 32, 116, 105, 109,
    101, 32, 102, 111, 114, 32, 97, 108, 108, 32, 103>>

memory == [p \in 0..(MaxStart + MaxLength + 4) |->
              IF p \in start..(start + length - 1) THEN Text[p - start + 1] ELSE around]

Initval == Word(0, 13)
DeadBeef == Word(57005, 48879)

Builds == [order : {"little", "big", "unknown"}, valgrind : BOOLEAN]

Lengthen == /\ length < MaxLength
            /\ length' = length + 1
            /\ UNCHANGED <<build, start, around>>

Shift == /\ start < MaxStart
         /\ start' = start + 1
         /\ UNCHANGED <<build, length, around>>

Surround == /\ around = 0
            /\ around' = 255
            /\ UNCHANGED <<build, start, length>>

(* The words of the key, after zeros to a whole number of groups.          *)
PaddedKey == [p \in 0..(12 * ((length + 11) \div 12)) |->
                 IF p < length THEN Text[p + 1] ELSE 0]
Groups(At(_, _)) ==
    [g \in 1..((length + 11) \div 12) |->
        [q \in 1..3 |-> At(PaddedKey, 12 * (g - 1) + 4 * (q - 1))]]

(* The hash as it is defined on words: every group is added and mixed, the *)
(* last one finally.                                                       *)
HashOf(groups, abc) ==
    LET Sum(t, g) == [q \in 1..3 |-> Plus(t[q], groups[g][q])]
        n == Len(groups)
    IN IF n = 0 THEN abc
       ELSE final(Sum(FoldLeft(LAMBDA t, g : mix(Sum(t, g)), abc,
                               [g \in 1..(n - 1) |-> g]), n))

(* The seeds of a key: a, b and c before anything is added.                *)
SeededTwice(pc, pb) ==
    LET a == Plus(Plus(DeadBeef, Word(0, length)), pc) IN << a, a, Plus(a, pb) >>

(* The hash depends on nothing but the bytes of the key, their number and  *)
(* the seeds: not on the address, the byte order of the machine, the path  *)
(* its reads take or the bytes around the key that the aligned path reads  *)
(* with it (lookup3.c:280-445, 461-635, 652-760).                          *)
HashOfKeyOnly ==
    LET little == HashOf(Groups(LittleWord), SeededTwice(Initval, Zero))
        second == HashOf(Groups(LittleWord), SeededTwice(Initval, Initval))
    IN /\ hashlittle(build, memory, start, length, Initval) = little[3]
       /\ hashlittle2(build, memory, start, length, Initval, Initval)
            = << second[3], second[2] >>
       /\ hashbig(build, memory, start, length, Initval)
            = HashOf(Groups(BigWord), SeededTwice(Initval, Zero))[3]

(* The words of the key as the machine loads them.                         *)
Words(At(_, _)) == [i \in 1..(length \div 4) |-> At(PaddedKey, 4 * (i - 1))]

(* What the comments of lookup3.c:166-170, 210-213 and 452-459 promise:    *)
(* with no second seed hashlittle2 and hashword2, each written out by      *)
(* itself, return the hash of their short forms, and hashword is           *)
(* hashlittle on a little-endian machine and hashbig on a big-endian one.  *)
SameFunctions ==
    /\ hashlittle2(build, memory, start, length, Initval, Zero)[1]
         = hashlittle(build, memory, start, length, Initval)
    /\ length % 4 = 0 =>
         /\ hashword2(Words(LittleWord), Initval, Zero)[1]
              = hashword(Words(LittleWord), Initval)
         /\ build.order = "little" => hashword(Words(LittleWord), Initval)
                                  = hashlittle(build, memory, start, length, Initval)
         /\ build.order = "big" => hashword(Words(BigWord), Initval)
                                  = hashbig(build, memory, start, length, Initval)

(* The vectors of driver5 (lookup3.c:968-987), on every kind of machine.   *)
FourScore ==
    <<70, 111, 117, 114, 32, 115, 99, 111, 114, 101, 32, 97, 110, 100, 32,
    115, 101, 118, 101, 110, 32, 121, 101, 97, 114, 115, 32, 97, 103, 111>>
Vector(k, pc, pb) ==
    LET mem == [p \in 0..63 |-> IF p \in 4..(Len(k) + 3) THEN k[p - 3] ELSE 255]
        hashes == {hashlittle2(b, mem, 4, Len(k), pc, pb) : b \in Builds}
    IN CHOOSE h \in hashes : \A g \in hashes : g = h

ASSUME KnownHashes ==
    /\ Vector(<< >>, Zero, Zero)         = << DeadBeef, DeadBeef >>
    /\ Vector(<< >>, Zero, DeadBeef)     = << Word(48475, 32222), DeadBeef >>
    /\ Vector(<< >>, DeadBeef, DeadBeef) = << Word(39945, 15565), Word(48475, 32222) >>
    /\ Vector(FourScore, Zero, Zero)     = << Word(6007, 1361), Word(52850, 9958) >>
    /\ Vector(FourScore, Zero, Word(0, 1)) = << Word(58208, 31918), Word(48439, 7652) >>
    /\ Vector(FourScore, Word(0, 1), Zero) = << Word(52578, 33121), Word(27838, 42163) >>

-----------------------------------------------------------------------------
(* MD5, with md5_process for the compression and a limit of the counters   *)
(* that TLC can compute with.                                              *)

Whole == INSTANCE Md5Stream WITH Process <- md5_process, CountLimit <- 2 ^ 30

(* MD5 of the empty message and of "abc", from RFC 1321.                   *)
ASSUME KnownDigests ==
    /\ Whole!md5_data(Garbage, << >>)
         = << 212, 29, 140, 217, 143, 0, 178, 4, 233, 128, 9, 152, 236, 248, 66, 126 >>
    /\ Whole!md5_data(Garbage, << 97, 98, 99 >>)
         = << 144, 1, 80, 152, 60, 210, 79, 176, 214, 150, 63, 125, 40, 225, 127, 114 >>

-----------------------------------------------------------------------------

KeyInit ==
    /\ build \in Builds
    /\ start = 1
    /\ length = 0
    /\ around = 0

KeyNext == Lengthen \/ Shift \/ Surround

DigestsInit == Init /\ KeyInit

(* Keys and messages share no state, so one rests while the other moves.   *)
DigestsNext ==
    \/ KeyNext /\ sent = 0 /\ digest = NoDigest /\ UNCHANGED vars
    \/ Next /\ length = 0 /\ start = 1 /\ around = 0 /\ UNCHANGED keyVars

DigestsSpec == DigestsInit /\ [][DigestsNext]_<<vars, keyVars>>

=============================================================================
