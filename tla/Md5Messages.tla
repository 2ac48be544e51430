---------------------------- MODULE Md5Messages -----------------------------
(***************************************************************************)
(* md5lazyIO of src/src/Support/MD5.hs: a message is given to md5_append   *)
(* piece by piece, as the chunks of a lazy byte string come, and           *)
(* md5_finish returns its digest.                                          *)
(***************************************************************************)
EXTENDS Md5Stream

CONSTANTS
    Message,        \* the bytes to come, of which a message is a beginning
    Pieces,         \* the lengths of the pieces
    Garbage,        \* what the memory of a new state holds
    NoDigest        \* the digest before md5_finish: no registers at all

(* A full buffer is a whole number of times in the low count.              *)
ASSUME CountAssumption ==
    CountLimit \in Nat /\ CountLimit > 0 /\ CountLimit % (8 * BlockLen) = 0

ASSUME MessageAssumption ==
    /\ Message \in Seq(Nat)
    /\ Pieces \subseteq Nat
    /\ Garbage \in [1..BlockLen -> Nat]

VARIABLES
    pms,            \* the md5_state_s
    sent,           \* how many bytes of the message have been appended
    digest          \* what md5_finish returned, or NoDigest

vars == <<pms, sent, digest>>

Init ==
    /\ pms = md5_init(Garbage)
    /\ sent = 0
    /\ digest = NoDigest

Piece(n) ==
    /\ digest = NoDigest
    /\ sent + n <= Len(Message)
    /\ pms' = md5_append(pms, SubSeq(Message, sent + 1, sent + n))
    /\ sent' = sent + n
    /\ UNCHANGED digest

Finish ==
    /\ digest = NoDigest
    /\ digest' = md5_finish(pms)
    /\ UNCHANGED <<pms, sent>>

(* The next message gets a state of its own, in memory never written.      *)
Restart ==
    /\ digest # NoDigest
    /\ pms' = md5_init(Garbage)
    /\ sent' = 0
    /\ digest' = NoDigest

Next == (\E n \in Pieces : Piece(n)) \/ Finish \/ Restart

Spec == Init /\ [][Next]_vars

-----------------------------------------------------------------------------
(* What MD5 is of a message in one piece.                                  *)

(* The registers after all full blocks of m.                               *)
Registers(m) == Compressed(Chaining, m, 0)[Len(m) \div BlockLen]

(* The number of bits of n bytes, in two words.                            *)
BitsOf(n) == << (8 * n) % CountLimit, ((8 * n) \div CountLimit) % CountLimit >>

(* One bit, zeros up to 56 modulo 64 and the number of bits in 8 bytes.    *)
Zeros(n) == CHOOSE z \in 0..(BlockLen - 1) : (n + 1 + z) % BlockLen = 56
Padded(m) ==
    m \o <<128>> \o [i \in 1..Zeros(Len(m)) |-> 0]
      \o LowBytes(BitsOf(Len(m))[1], 4) \o LowBytes(BitsOf(Len(m))[2], 4)

Sent == SubSeq(Message, 1, sent)

(* The state depends on the message alone, however it was cut: its blocks  *)
(* have been compressed in order, the rest waits in the buffer and the two *)
(* counters hold the length.  No byte is lost, repeated or taken from the  *)
(* stale part of the buffer (md5sum.c:325-361).                            *)
StateOfMessage ==
    digest = NoDigest =>
        /\ pms.abcd = Registers(Sent)
        /\ SubSeq(pms.buf, 1, sent % BlockLen)
             = SubSeq(Message, sent - (sent % BlockLen) + 1, sent)
        /\ pms.count = BitsOf(sent)

(* The digest is that of the message with its padding, for every length    *)
(* and every way to cut the message (md5sum.c:363-384).                    *)
DigestOfMessage ==
    digest # NoDigest => digest = Registers(Padded(Sent))

=============================================================================
