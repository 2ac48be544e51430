----------------------------- MODULE MCDigests ------------------------------
(***************************************************************************)
(* Digests with a compression that collects the blocks, so that the digest *)
(* of a message is the padded message itself, and a message whose bytes    *)
(* are told by their places, above those of the padding.                   *)
(***************************************************************************)
EXTENDS Digests

CONSTANT MaxSent    \* the longest message

Chain(abcd, block) == Append(abcd, block)
MCMessage == [i \in 1..MaxSent |-> 1000 + i]
MCGarbage == [i \in 1..BlockLen |-> 255]

=============================================================================
