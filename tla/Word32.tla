------------------------------- MODULE Word32 -------------------------------
(***************************************************************************)
(* The uint32_t of src/src/cbits as a pair <<high, low>> of 16-bit halves: *)
(* unsigned sums and differences wrap, which both hash functions rely on.  *)
(***************************************************************************)
EXTENDS Integers, Sequences

Half == 65536
Word(high, low) == <<high % Half, low % Half>>
Zero == Word(0, 0)

Plus(x, y) ==
    LET low == x[2] + y[2]
    IN Word(x[1] + y[1] + low \div Half, low)

Minus(x, y) ==
    LET low == x[2] - y[2]
    IN Word(x[1] - y[1] + low \div Half, low)

(* rot and ROTATE_LEFT, for 0 < k < 32: the halves change places every 16. *)
Rotated(x, k) ==
    LET w == IF k < 16 THEN x ELSE <<x[2], x[1]>>
        n == 2 ^ (k % 16)
    IN Word(w[1] * n + (w[2] * n) \div Half, w[2] * n + (w[1] * n) \div Half)

=============================================================================
