----------------------------- MODULE Word32Bits -----------------------------
(* The operators of C on the bits of the words of Word32.                  *)
EXTENDS Word32, Bitwise

BitXor(x, y) == <<x[1] ^^ y[1], x[2] ^^ y[2]>>
BitAnd(x, y) == <<x[1] & y[1], x[2] & y[2]>>
BitOr(x, y)  == <<x[1] | y[1], x[2] | y[2]>>
BitNot(x)    == <<Half - 1 - x[1], Half - 1 - x[2]>>

=============================================================================
