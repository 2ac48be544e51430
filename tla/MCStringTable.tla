--------------------------- MODULE MCStringTable ----------------------------
(***************************************************************************)
(* The string table with real strings and their real hashes, as far as the *)
(* table can tell them: the low half of the word.  "k" and "l" make "kl",  *)
(* and "l" and "kl" make "lkl", which is as long as MaxEntry: its length   *)
(* does not fit, and every entry made for it leads to the same four        *)
(* buckets.  The others are chosen so that tables grow with fewer than     *)
(* five entries alike, some of them while they are being filled.           *)
(***************************************************************************)
EXTENDS StringTable

L3 == INSTANCE Lookup3

(* Each string with the low halves of its hashes.                          *)
Hashes == {
    << << >>, <<48879, 48880>> >>,
    << <<107>>, <<62636, 26477>> >>,
    << <<108>>, <<38759, 27014>> >>,
    << <<107, 108>>, <<6354, 16690>> >>,
    << <<109, 98>>, <<52458, 25097>> >>,
    << <<104, 102>>, <<62458, 43065>> >>,
    << <<108, 107, 108>>, <<21777, 42809>> >> }

MCStrings == {p[1] : p \in Hashes}
MCHash == [s \in MCStrings |-> (CHOOSE p \in Hashes : p[1] = s)[2]]

Memory(s) == [p \in 0..7 |-> IF p < Len(s) THEN s[p + 1] ELSE 0]
ASSUME HashesAreHashlittle ==
    \A p \in Hashes : \A i \in 0..1 :
        p[2][i + 1] = L3!hashlittle([order |-> "little", valgrind |-> FALSE],
                                    Memory(p[1]), 0, Len(p[1]), L3!Word(0, i))[2]

=============================================================================
