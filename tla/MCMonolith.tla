----------------------------- MODULE MCMonolith -----------------------------
(* Monolith with two blocks, for TLC.                                      *)
EXTENDS Monolith, TLC

MonoSymmetry == Permutations(Monos)

=============================================================================
