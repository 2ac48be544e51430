---------------------------- MODULE MCCollector ----------------------------
(* Collector on a small heap, for TLC.                                     *)
EXTENDS Collector, TLC

NodeSymmetry == Permutations(Nodes)

=============================================================================
