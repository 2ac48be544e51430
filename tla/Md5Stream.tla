----------------------------- MODULE Md5Stream ------------------------------
(***************************************************************************)
(* The streaming interface of src/src/cbits/md5sum.c: md5_init, md5_append *)
(* and md5_finish.  The compression of a block is a parameter: nothing     *)
(* here depends on what it does.  A state is a record [count, abcd, buf],  *)
(* with BlockLen bytes in buf.                                             *)
(***************************************************************************)
EXTENDS Word32, SequencesExt

CONSTANTS
    Process(_, _),  \* md5_process: the registers after a block
    CountLimit      \* one more than an md5_word_t holds: 2^32 in the code

BlockLen == 64

Chaining == << Word(26437, 8961), Word(61389, 43913),
               Word(39098, 56574), Word(4146, 21622) >>

(* count and abcd are set; buf keeps whatever the memory held.             *)
md5_init(buf) == [count |-> <<0, 0>>, abcd |-> Chaining, buf |-> buf]

(* memcpy(buf + offset, p, n)                                              *)
CopiedTo(buf, offset, data) ==
    [i \in 1..BlockLen |-> IF i > offset /\ i <= offset + Len(data)
                           THEN data[i - offset] ELSE buf[i]]

(* A faulty variant: the low count wraps without a carry.                  *)
CountedNoCarry(count, nbytes) ==
    << (count[1] + 8 * nbytes) % CountLimit,
       (count[2] + (nbytes \div (CountLimit \div 8))) % CountLimit >>

(* The bits are counted in two words: nbits may wrap, count[0] may carry.  *)
Counted(count, nbytes) ==
    LET nbits == (8 * nbytes) % CountLimit
        low   == (count[1] + nbits) % CountLimit
        carry == IF low < nbits THEN 1 ELSE 0
    IN << low, (count[2] + (nbytes \div (CountLimit \div 8)) + carry) % CountLimit >>

(* The bytes of the buffer that are in use.                                *)
Offset(count) == (count[1] \div 8) % BlockLen

(* The block that begins at p, as a pointer into data counts from 0.       *)
BlockAt(data, p) == SubSeq(data, p + 1, p + BlockLen)

(* The registers after each number of full blocks of data from p on.       *)
Compressed(abcd, data, p) ==
    LET after[k \in Nat] ==
            IF k = 0 THEN abcd
            ELSE Process(after[k - 1], BlockAt(data, p + BlockLen * (k - 1)))
    IN after

(* md5_append: fill up the buffer, process full blocks straight from the   *)
(* data, keep the rest.                                                    *)
md5_append(pms, data) ==
    LET offset == Offset(pms.count)
        copy   == IF offset = 0 THEN 0
                  ELSE IF offset + Len(data) > BlockLen THEN BlockLen - offset
                  ELSE Len(data)
        filled == CopiedTo(pms.buf, offset, SubSeq(data, 1, copy))
        partial == offset # 0 /\ offset + copy < BlockLen
        first  == IF offset # 0 THEN Process(pms.abcd, filled) ELSE pms.abcd
        left   == Len(data) - copy
        rest   == SubSeq(data, Len(data) - (left % BlockLen) + 1, Len(data))
    IN IF data = << >> THEN pms
       ELSE [count |-> Counted(pms.count, Len(data)),
             abcd  |-> IF partial THEN pms.abcd
                       ELSE Compressed(first, data, copy)[left \div BlockLen],
             buf   |-> IF partial THEN filled ELSE CopiedTo(filled, 0, rest)]

(* The bytes of a word, least significant first, as many as asked for.     *)
LowBytes(n, bytes) == [i \in 1..bytes |-> (n \div 256 ^ (i - 1)) % 256]

Pad == [i \in 1..BlockLen |-> IF i = 1 THEN 128 ELSE 0]

(* The eight bytes of the length, saved before the padding is appended.    *)
LengthBytes(count) == LowBytes(count[1], 4) \o LowBytes(count[2], 4)

(* A faulty variant: no padding when 56 bytes wait in the buffer.          *)
PadLengthShort(count) == (56 - (count[1] \div 8)) % BlockLen

(* How many bytes of Pad bring the length to 56 modulo 64: at least one.   *)
PadLength(count) == ((55 - (count[1] \div 8)) % BlockLen) + 1

md5_finish(pms) ==
    LET padded == md5_append(pms, SubSeq(Pad, 1, PadLength(pms.count)))
    IN md5_append(padded, LengthBytes(pms.count)).abcd

(* md5_data, with the bytes of the digest.                                 *)
md5_data(buf, data) ==
    LET abcd == md5_finish(md5_append(md5_init(buf), data))
    IN FlattenSeq([q \in 1..4 |-> LowBytes(abcd[q][2], 2) \o LowBytes(abcd[q][1], 2)])

=============================================================================
