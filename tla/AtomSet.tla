------------------------------ MODULE AtomSet -------------------------------
(***************************************************************************)
(* What the string table promises its callers: a string it keeps has one   *)
(* number, the same for ever, any other a new one each time it is asked    *)
(* for, and no two strings share one.  Zero is the empty string.           *)
(***************************************************************************)
EXTENDS Naturals

CONSTANTS
    Strings, Atoms,
    Kept            \* the strings whose number is found again

VARIABLE interned       \* the pairs of a string and the atom returned for it

Init == interned = {}

Again(s) == /\ s \in Kept
            /\ \E p \in interned : p[1] = s
            /\ UNCHANGED interned

Fresh(s, a) ==
    /\ \A p \in interned : p[2] # a /\ (s \in Kept => p[1] # s)
    /\ (s = << >>) <=> (a = 0)
    /\ interned' = interned \union {<< s, a >>}

Next == \E s \in Strings : Again(s) \/ \E a \in Atoms : Fresh(s, a)

Spec == Init /\ [][Next]_interned

=============================================================================
