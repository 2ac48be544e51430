-------------------------------- MODULE Md5 ---------------------------------
(***************************************************************************)
(* The compression of a block by MD5, as md5_process of                    *)
(* src/src/cbits/md5sum.c computes it.                                     *)
(***************************************************************************)
EXTENDS Word32Bits, SequencesExt

(* T1 .. T64, most significant half first.                                 *)
T == <<
       <<55146, 42104>>, <<59591, 46934>>, <<9248, 28891>>, <<49597, 52974>>,
       <<62844, 4015>>, <<18311, 50730>>, <<43056, 17939>>, <<64838, 38145>>,
       <<27008, 39128>>, <<35652, 63407>>, <<65535, 23473>>, <<35164, 55230>>,
       <<27536, 4386>>, <<64920, 29075>>, <<42617, 17294>>, <<18868, 2081>>,
       <<63006, 9570>>, <<49216, 45888>>, <<9822, 23121>>, <<59830, 51114>>,
       <<54831, 4189>>, <<580, 5203>>, <<55457, 59009>>, <<59347, 64456>>,
       <<8673, 52710>>, <<49975, 2006>>, <<62677, 3463>>, <<17754, 5357>>,
       <<43491, 59653>>, <<64751, 41976>>, <<26479, 729>>, <<36138, 19594>>,
       <<65530, 14658>>, <<34673, 63105>>, <<28061, 24866>>, <<64997, 14348>>,
       <<42174, 59972>>, <<19422, 53161>>, <<63163, 19296>>, <<48831, 48240>>,
       <<10395, 32454>>, <<60065, 10234>>, <<54511, 12421>>, <<1160, 7429>>,
       <<55764, 53305>>, <<59099, 39397>>, <<8098, 31992>>, <<50348, 22117>>,
       <<62505, 8772>>, <<17194, 65431>>, <<43924, 9127>>, <<64659, 41017>>,
       <<25947, 22979>>, <<36620, 52370>>, <<65519, 62589>>, <<34180, 24017>>,
       <<28584, 32335>>, <<65068, 59104>>, <<41729, 17172>>, <<19976, 4513>>,
       <<63315, 32386>>, <<48442, 62005>>, <<10967, 53947>>, <<60294, 54161>> >>

F(x, y, z) == BitOr(BitAnd(x, y), BitAnd(BitNot(x), z))
G(x, y, z) == BitOr(BitAnd(x, z), BitAnd(y, BitNot(z)))
H(x, y, z) == BitXor(x, BitXor(y, z))
I(x, y, z) == BitXor(y, BitOr(x, BitNot(z)))

(* The word of the block and the rotation of step i = 0 .. 63.             *)
WordOf(i) == CASE i < 16 -> i
               [] i \in 16..31 -> (5 * i + 1) % 16
               [] i \in 32..47 -> (3 * i + 5) % 16
               [] OTHER -> (7 * i) % 16

RotationOf(i) == << <<7, 12, 17, 22>>, <<5, 9, 14, 20>>,
                    <<4, 11, 16, 23>>, <<6, 10, 15, 21>> >>[(i \div 16) + 1][(i % 4) + 1]

(* X[k]: the bytes of the block are little-endian, whether they are read   *)
(* in place, copied for alignment, or put together on a big-endian machine.*)
X(data, k) == Word(data[4 * k + 4] * 256 + data[4 * k + 3],
                   data[4 * k + 2] * 256 + data[4 * k + 1])

(* SET(a, b, c, d, k, s, Ti): a gets its new value and the four registers  *)
(* change places for the next step.                                        *)
SetStep(r, data, i) ==
    LET f == CASE i < 16 -> F(r[2], r[3], r[4])
               [] i \in 16..31 -> G(r[2], r[3], r[4])
               [] i \in 32..47 -> H(r[2], r[3], r[4])
               [] OTHER -> I(r[2], r[3], r[4])
        t == Plus(Plus(r[1], f), Plus(X(data, WordOf(i)), T[i + 1]))
    IN << r[4], Plus(Rotated(t, RotationOf(i)), r[2]), r[2], r[3] >>

md5_process(abcd, data) ==
    LET r == FoldLeft(LAMBDA q, i : SetStep(q, data, i), abcd,
                      [i \in 1..64 |-> i - 1])
    IN [q \in 1..4 |-> Plus(abcd[q], r[q])]

=============================================================================
