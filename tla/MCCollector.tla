---------------------------- MODULE MCCollector ----------------------------
(* The collector for TLC: nodes that differ in nothing but their name. *)
EXTENDS Collector, TLC

NodeSymmetry == Permutations(Nodes)
=============================================================================
